---- MODULE Spec2Model ----
(***************************************************************************)
(* A model of OBDly's local retrieval and matching layer:                  *)
(*   - csv_match, the structured fault matcher of obdly_app.py, with the   *)
(*     text normaliser and the two fuzzy-ratio implementations it uses;    *)
(*   - the lazy TF-IDF index and retriever of expert_tools.py, once as a   *)
(*     single-threaded request loop and once with two threads that share   *)
(*     the module-level index;                                             *)
(*   - the diagnostic stepper and the chunker of expert_tools.py, the      *)
(*     daily AI limit and the registration detection of obdly_app.py, the  *)
(*     submission review of user_submission_page.py and the database       *)
(*     append of reddit_data_collector.py, each with a request loop of its *)
(*     own.                                                                *)
(* Text is a sequence of one-character strings, so that substring tests,   *)
(* replacement, splitting and tokenising are computed as the code computes *)
(* them.                                                                   *)
(***************************************************************************)
EXTENDS Integers, Sequences, FiniteSets, TLC

VARIABLES
    \* obdly_app.py (structured fault matcher)
    have_rapidfuzz,  \* _HAVE_RAPIDFUZZ: which fuzzy library the process imported
    fault_csv,       \* rows of obdly_fault_data.csv on disk (<<>> when missing)
    csv_rows,        \* ss.csv_rows
    match_pc,        \* where the script run is: start, idle, pending, done
    match_text,      \* the user message of this turn, csv_match's argument
    match_out,       \* what the last csv_match call computed and returned
    \* expert_tools.py (TF-IDF index)
    corpus,          \* the two source files on disk
    INDEX_BUILT, CHUNKS, VOCAB, DF, IDF, TF, TFIDF_NORM,
    DF_keys,         \* the keys of _DF in insertion order, as a dict iterates
    build_runs,      \* how many times the build body (lines 135-180) was entered
    last_call,       \* the last retrieval request and its result
    \* two threads sharing the index
    pc, th,          \* per thread: position in the code, local variables
    \* obdly_app.py (OBD code cards of the chat flow)
    obd_library,     \* what _cached_load_obd_libraries() returns: code -> entry
    obd_codes,       \* ss.obd_codes
    code_pc,         \* where the process is: start, idle, pending, done, decoded
    code_turn,       \* this turn's message, inferred make, codes and card blocks
    \* expert_tools.py (OBD code decoder)
    obd_json,        \* obd_codes.json on disk
    OBD_CODES_CACHE, \* _OBD_CODES_CACHE
    decode_last,     \* the last decode_code call and what it returned
    \* _normalise_text applied to a text written twice
    norm_call,
    \* expert_tools.py (diagnostic stepper): the caller's plan_state and history
    plan,
    \* expert_tools.py (_split_into_chunks called on its own)
    chunker,
    \* obdlyaitest/user_submission_page.py (admin review page)
    review,
    \* obdly_app.py (ask_ai and the daily counter of the session)
    ai_session,
    \* reddit_data_collector.py (append_candidates_to_db)
    db_append,
    \* obdly_app.py (registration detection in the chat flow)
    reg_turn

match_vars == <<have_rapidfuzz, fault_csv, csv_rows, match_pc, match_text, match_out>>
index_vars == <<CHUNKS, VOCAB, DF, DF_keys, IDF, TF, TFIDF_NORM>>
code_vars == <<obd_library, obd_codes, code_pc, code_turn>>
decode_vars == <<obd_json, OBD_CODES_CACHE, decode_last>>
card_vars == <<code_vars, decode_vars, norm_call>>
tool_vars == <<plan, chunker, review, ai_session, db_append, reg_turn>>
other_than_match == <<corpus, INDEX_BUILT, index_vars, build_runs, last_call, pc, th,
                      card_vars, tool_vars>>
vars == <<match_vars, other_than_match>>

(***************************************************************************)
(* Bounds of the model.                                                    *)
(***************************************************************************)
MaxQueryWords == 3   \* words in a csv_match query
MaxRows == 2         \* rows in the fault table, and in a corpus CSV
MaxIndexWords == 2   \* words in a retrieval query
MaxK == 2            \* the largest k asked of retrieve_context
MaxCalls == 1        \* retrieval calls a thread makes
MaxCodeWords == 2    \* words in a message scanned for OBD codes
MaxChunkWords == 3   \* words in a text given to _split_into_chunks
MaxChunkTokens == 3  \* the largest max_tokens given to _split_into_chunks
MaxDays == 1         \* midnights a session lives through
MaxSeedTests == 5    \* tests in a seed_tests list given to the stepper
MaxRepeats == 2      \* next_action calls between two answers
MaxExtraAnswers == 1 \* answers given after the flow is completed
MaxRegWords == 3 \* words of a chat message
MaxRegTurns == 1 \* further chat messages after the first
MaxSubmissions == 3 \* rows of pending_submissions.csv
MaxDbRows == 3 \* rows that approvals append to obdly_fault_data.csv
MaxCandidates == 2 \* candidates of one append
MaxAppendCalls == 1 \* appends with a fresh candidate list

(***************************************************************************)
(* Characters and strings.                                                 *)
(***************************************************************************)
\* The characters that occur in the model's texts, in code-point order.
Ascii ==
    <<" ", "'", ",", "-", ".", "/",
      "0", "1", "2", "3", "4", "5", "6", "7", "8", "9", ":", "?",
      "A", "B", "C", "D", "E", "F", "G", "H", "I", "J", "K", "L", "M",
      "N", "O", "P", "Q", "R", "S", "T", "U", "V", "W", "X", "Y", "Z",
      "a", "b", "c", "d", "e", "f", "g", "h", "i", "j", "k", "l", "m",
      "n", "o", "p", "q", "r", "s", "t", "u", "v", "w", "x", "y", "z">>

Chars == {Ascii[i] : i \in 1..Len(Ascii)}

\* ord(c), up to an order-preserving renumbering
OrdOf == [c \in Chars |-> CHOOSE i \in 1..Len(Ascii) : Ascii[i] = c]

UpperAZ == {Ascii[i] : i \in 19..44}

\* str.lower() on one character: "A".."Z" are 26 places before "a".."z"
LowerChar == [c \in Chars |-> IF c \in UpperAZ THEN Ascii[OrdOf[c] + 26] ELSE c]

Lower(s) == [i \in 1..Len(s) |-> LowerChar[s[i]]]

Min2(a, b) == IF a <= b THEN a ELSE b
Max2(a, b) == IF a >= b THEN a ELSE b

\* s[i:i+len(sub)] == sub   (i is 1-based here)
MatchAt(s, sub, i) ==
    /\ i + Len(sub) - 1 <= Len(s)
    /\ \A j \in 1..Len(sub) : s[i + j - 1] = sub[j]

\* Python's `sub in s`
Contains(sub, s) == \E i \in 1..(Len(s) + 1) : MatchAt(s, sub, i)

\* str.replace(old, new) for non-empty old: leftmost, non-overlapping
RECURSIVE ReplaceFrom(_, _, _, _)
ReplaceFrom(s, old, new, i) ==
    IF i > Len(s) THEN <<>>
    ELSE IF MatchAt(s, old, i) THEN new \o ReplaceFrom(s, old, new, i + Len(old))
    ELSE <<s[i]>> \o ReplaceFrom(s, old, new, i + 1)

StrReplace(s, old, new) ==
    IF Contains(old, s) THEN ReplaceFrom(s, old, new, 1) ELSE s

Whitespace == {" ", "\n"}

\* str.split(): the maximal runs of non-blank characters, in order
RECURSIVE SplitFrom(_, _, _)
SplitFrom(s, i, cur) ==
    IF i > Len(s) THEN (IF cur = <<>> THEN <<>> ELSE <<cur>>)
    ELSE IF s[i] \in Whitespace
         THEN (IF cur = <<>> THEN <<>> ELSE <<cur>>) \o SplitFrom(s, i + 1, <<>>)
         ELSE SplitFrom(s, i + 1, Append(cur, s[i]))

Split(s) == SplitFrom(s, 1, <<>>)

Range(seq) == {seq[i] : i \in 1..Len(seq)}

\* A function given by a rule, as the table of its values
Table(f) == f @@ <<>>

\* F of the value of x, with x worked out once
With(x, F(_)) == CHOOSE r \in {F(v) : v \in {x}} : TRUE

\* " ".join(words)
RECURSIVE Join(_)
Join(words) ==
    IF words = <<>> THEN <<>>
    ELSE IF Len(words) = 1 THEN words[1]
    ELSE words[1] \o <<" ">> \o Join(Tail(words))

\* a < b for Python strings
RECURSIVE StrLess(_, _)
StrLess(a, b) ==
    IF b = <<>> THEN FALSE
    ELSE IF a = <<>> THEN TRUE
    ELSE IF a[1] = b[1] THEN StrLess(Tail(a), Tail(b))
    ELSE OrdOf[a[1]] < OrdOf[b[1]]

\* sorted(S) for a set of strings
RECURSIVE Sorted(_)
Sorted(S) ==
    IF S = {} THEN <<>>
    ELSE LET m == CHOOSE x \in S : \A y \in S \ {x} : StrLess(x, y)
         IN <<m>> \o Sorted(S \ {m})

(***************************************************************************)
(* Fuzzy helpers (obdly_app.py).                                           *)
(***************************************************************************)
\* difflib.SequenceMatcher.find_longest_match without junk: the longest common
\* block of a[alo..ahi] and b[blo..bhi], the earliest in a and then in b.
RECURSIVE RunLen(_, _, _, _, _, _)
RunLen(a, b, i, j, ahi, bhi) ==
    IF i > ahi \/ j > bhi THEN 0
    ELSE IF a[i] # b[j] THEN 0
    ELSE 1 + RunLen(a, b, i + 1, j + 1, ahi, bhi)

find_longest_match(a, b, alo, ahi, blo, bhi) ==
    LET run == [p \in (alo..ahi) \X (blo..bhi) |-> RunLen(a, b, p[1], p[2], ahi, bhi)]
        Better(p, q) == \/ run[p] > run[q]
                        \/ run[p] = run[q] /\ p[1] < q[1]
                        \/ run[p] = run[q] /\ p[1] = q[1] /\ p[2] < q[2]
        best == CHOOSE p \in DOMAIN run : \A q \in DOMAIN run \ {p} : Better(p, q)
    IN  [i |-> best[1], j |-> best[2], k |-> run[best]]

\* The total size of SequenceMatcher.get_matching_blocks()
RECURSIVE matching_total(_, _, _, _, _, _)
matching_total(a, b, alo, ahi, blo, bhi) ==
    IF alo > ahi \/ blo > bhi THEN 0
    ELSE LET m == find_longest_match(a, b, alo, ahi, blo, bhi)
         IN  IF m.k = 0 THEN 0
             ELSE m.k + matching_total(a, b, alo, m.i - 1, blo, m.j - 1)
                      + matching_total(a, b, m.i + m.k, ahi, m.j + m.k, bhi)

\* int(difflib.SequenceMatcher(None, a, b).ratio() * 100).  ratio() is
\* 2.0 * M / T in doubles (1.0 when both are empty); truncating the product
\* equals the integer quotient except where the double product falls just
\* under a whole number, which up to T = 120 happens only for 0.58 * 100.
sequence_ratio(a, b) ==
    LET T == Len(a) + Len(b)
        M == matching_total(a, b, 1, Len(a), 1, Len(b))
    IN  IF T = 0 THEN 100
        ELSE IF 100 * M = 29 * T THEN 57
        ELSE (200 * M) \div T

\* The length of a longest common subsequence, one row of the table at a
\* time: row[j] is the value for the first j - 1 characters of b.
LcsRow(ai, b, prev) ==
    [j \in 1..(Len(b) + 1) |->
        LET hits == {prev[x] + 1 : x \in {y \in 1..(j - 1) : b[y] = ai}}
            all == hits \cup {prev[j]}
        IN  CHOOSE v \in all : \A u \in all : u <= v]

RECURSIVE LcsRows(_, _, _, _)
LcsRows(a, b, i, prev) ==
    IF i > Len(a) THEN prev[Len(b) + 1]
    ELSE LET row == LcsRow(a[i], b, prev)
         IN  IF row = <<>> THEN 0 ELSE LcsRows(a, b, i + 1, row)

indel_distance(a, b) ==
    Len(a) + Len(b) - 2 * LcsRows(a, b, 1, [j \in 1..(Len(b) + 1) |-> 0])

\* int() of rapidfuzz's _norm_distance: 100 - 100 * dist / lensum, truncated
norm_distance(dist, lensum) ==
    IF lensum = 0 THEN 100 ELSE (100 * lensum - 100 * dist) \div lensum

\* int(rapidfuzz.fuzz.token_set_ratio(a, b))
token_set_ratio(a, b) ==
    LET tokens_a == Range(Split(a))
        tokens_b == Range(Split(b))
        intersect == tokens_a \cap tokens_b
        diff_ab == Join(Sorted(tokens_a \ tokens_b))
        diff_ba == Join(Sorted(tokens_b \ tokens_a))
        ab_len == Len(diff_ab)
        ba_len == Len(diff_ba)
        sect_len == Len(Join(Sorted(intersect)))
        sep == IF sect_len # 0 THEN 1 ELSE 0
        sect_ab_len == sect_len + sep + ab_len
        sect_ba_len == sect_len + sep + ba_len
        result == norm_distance(indel_distance(diff_ab, diff_ba),
                                sect_ab_len + sect_ba_len)
        sect_ab_ratio == norm_distance(sep + ab_len, sect_len + sect_ab_len)
        sect_ba_ratio == norm_distance(sep + ba_len, sect_len + sect_ba_len)
    IN  IF tokens_a = {} \/ tokens_b = {} THEN 0
        ELSE IF intersect # {} /\ (ab_len = 0 \/ ba_len = 0) THEN 100
        ELSE IF sect_len = 0 THEN result
        ELSE Max2(result, Max2(sect_ab_ratio, sect_ba_ratio))

\* _fuzzy_ratio(a, b), rf = _HAVE_RAPIDFUZZ
fuzzy_ratio(a, b, rf) ==
    IF rf THEN token_set_ratio(a, b) ELSE sequence_ratio(a, b)

\* The alias table of _normalise_text, in the dict's order
aliases ==
    << <<<<"v", "w">>, <<"v", "o", "l", "k", "s", "w", "a", "g", "e", "n">>>>,
       <<<<"m", "e", "r", "c">>, <<"m", "e", "r", "c", "e", "d", "e", "s">>>>,
       <<<<"m", "b">>, <<"m", "e", "r", "c", "e", "d", "e", "s">>>>,
       <<<<"l", "a", "n", "d", " ", "r", "o", "v", "e", "r">>, <<"l", "a", "n", "d", "r", "o", "v", "e", "r">>>>,
       <<<<"v", "a", "u", "x", "h", "a", "l", "l">>, <<"o", "p", "e", "l">>>> >>

RECURSIVE ApplyAliases(_, _)
ApplyAliases(s, k) ==
    IF k > Len(aliases) THEN s
    ELSE ApplyAliases(StrReplace(s, aliases[k][1], aliases[k][2]), k + 1)

normalise_text(s) ==
    LET a == ApplyAliases(Lower(s), 1)
    IN  StrReplace(StrReplace(StrReplace(a, <<"/">>, <<" ">>),
                              <<",">>, <<" ">>),
                   <<"-">>, <<" ">>)

(***************************************************************************)
(* csv_match (obdly_app.py).                                               *)
(***************************************************************************)
fault_words ==
    { <<"p", "r", "o", "b", "l", "e", "m">>,
      <<"i", "s", "s", "u", "e">>,
      <<"f", "a", "u", "l", "t">>,
      <<"b", "r", "o", "k", "e", "n">>,
      <<"n", "o", "t", " ", "w", "o", "r", "k", "i", "n", "g">>,
      <<"w", "a", "r", "n", "i", "n", "g">>,
      <<"l", "i", "g", "h", "t">>,
      <<"e", "r", "r", "o", "r">>,
      <<"n", "o", "i", "s", "e">>,
      <<"s", "m", "e", "l", "l">>,
      <<"l", "e", "a", "k">>,
      <<"v", "i", "b", "r", "a", "t", "i", "o", "n">>,
      <<"s", "h", "a", "k", "i", "n", "g">>,
      <<"s", "t", "a", "l", "l", "i", "n", "g">>,
      <<"w", "o", "n", "'", "t", " ", "s", "t", "a", "r", "t">>,
      <<"r", "o", "u", "g", "h">>,
      <<"h", "e", "s", "i", "t", "a", "t", "i", "n", "g">>,
      <<"k", "n", "o", "c", "k", "i", "n", "g">>,
      <<"s", "m", "o", "k", "e">>,
      <<"o", "v", "e", "r", "h", "e", "a", "t", "i", "n", "g">>,
      <<"g", "r", "i", "n", "d", "i", "n", "g">>,
      <<"s", "q", "u", "e", "a", "l", "i", "n", "g">>,
      <<"c", "l", "i", "c", "k", "i", "n", "g">>,
      <<"b", "u", "r", "n", "i", "n", "g">>,
      <<"d", "y", "i", "n", "g">>,
      <<"c", "u", "t", "t", "i", "n", "g", " ", "o", "u", "t">>,
      <<"j", "u", "d", "d", "e", "r", "i", "n", "g">>,
      <<"m", "i", "s", "f", "i", "r", "i", "n", "g">> }

info_words ==
    { <<"p", "e", "t", "r", "o", "l">>,
      <<"d", "i", "e", "s", "e", "l">>,
      <<"f", "u", "e", "l", " ", "t", "y", "p", "e">>,
      <<"w", "h", "a", "t", " ", "e", "n", "g", "i", "n", "e">>,
      <<"h", "o", "w", " ", "m", "a", "n", "y">>,
      <<"t", "e", "l", "l", " ", "m", "e", " ", "a", "b", "o", "u", "t">>,
      <<"i", "n", "f", "o", "r", "m", "a", "t", "i", "o", "n">>,
      <<"s", "p", "e", "c", "s">>,
      <<"i", "s", " ", "t", "h", "i", "s">>,
      <<"i", "s", " ", "i", "t">>,
      <<"w", "h", "a", "t", " ", "t", "y", "p", "e">>,
      <<"w", "h", "i", "c", "h", " ", "f", "u", "e", "l">>,
      <<"e", "n", "g", "i", "n", "e", " ", "s", "i", "z", "e">>,
      <<"h", "o", "w", " ", "m", "u", "c", "h">> }

stop ==
    { <<"t", "h", "e">>,
      <<"a">>,
      <<"a", "n">>,
      <<"i", "s">>,
      <<"m", "y">>,
      <<"h", "a", "s">>,
      <<"h", "a", "v", "e">>,
      <<"w", "i", "t", "h">>,
      <<"a", "n", "d">>,
      <<"o", "r">>,
      <<"w", "h", "e", "n">>,
      <<"p", "r", "o", "b", "l", "e", "m">>,
      <<"i", "s", "s", "u", "e">>,
      <<"c", "a", "r">>,
      <<"m", "a", "k", "i", "n", "g">>,
      <<"n", "o", "i", "s", "e">>,
      <<"f", "o", "r">>,
      <<"o", "f">>,
      <<"t", "o">>,
      <<"i", "n">>,
      <<"o", "n">>,
      <<"a", "t">>,
      <<"i", "t">>,
      <<"f", "r", "o", "m">>,
      <<"s", "o", "u", "n", "d">> }

\* str.split(sep) for a one-character separator: empty pieces are kept
RECURSIVE SplitOnFrom(_, _, _, _)
SplitOnFrom(s, sep, i, cur) ==
    IF i > Len(s) THEN <<cur>>
    ELSE IF s[i] = sep THEN <<cur>> \o SplitOnFrom(s, sep, i + 1, <<>>)
    ELSE SplitOnFrom(s, sep, i + 1, Append(cur, s[i]))

SplitOn(s, sep) == SplitOnFrom(s, sep, 1, <<>>)

\* passes_prefilters without the informational gate
passes_prefilters_no_info(text_lower) ==
    \E w \in fault_words : Contains(w, text_lower)

\* Lines 952-955: TRUE when the query is let through to the row loop
passes_prefilters(text_lower) ==
    ~ ( \/ ~ \E w \in fault_words : Contains(w, text_lower)
        \/ \E w \in info_words : Contains(w, text_lower) )

\* symptom_words_of without the length filter
symptom_words_any_length(text_lower) ==
    Range(Split(text_lower)) \ stop

\* Lines 957-964: the query's symptom words (a list without repeats)
symptom_words_of(text_lower) ==
    {w \in Range(Split(text_lower)) \ stop : Len(w) > 3}

\* make_gate as a bonus instead of a gate: no row is skipped for its make
make_gate_never_skips(make, text_lower, rf) == TRUE

\* Lines 974-975
make_gate(make, text_lower, rf) ==
    \/ Contains(make, text_lower)
    \/ fuzzy_ratio(make, text_lower, rf) >= 80

\* model_bonus without the fuzzy comparison
model_bonus_substring_only(model, text_lower, rf) ==
    model # <<>> /\ Contains(model, text_lower)

\* Lines 977-978
model_bonus(model, text_lower, rf) ==
    /\ model # <<>>
    /\ \/ Contains(model, text_lower)
       \/ fuzzy_ratio(model, text_lower, rf) >= 80

\* Line 985
year_bonus(year, text_lower) ==
    /\ year # <<>>
    /\ \E y \in Range(SplitOn(year, "-")) : y # <<>> /\ Contains(y, text_lower)

\* no_overlap without the gate: a row without overlap is scored too
no_overlap_never(overlap) == FALSE

\* Line 982: TRUE when the row is skipped for lack of symptom overlap
no_overlap(overlap) == overlap = 0

\* Lines 968-989, one pass of the loop body: whether row r is scored, and
\* its final score
score_row(r, text_lower, symptom_words, rf) ==
    With(normalise_text(r.Make), LAMBDA make :
        IF make = <<>> THEN [scored |-> FALSE, final |-> 0]
        ELSE IF ~ make_gate(make, text_lower, rf) THEN [scored |-> FALSE, final |-> 0]
        ELSE With(Range(Split(normalise_text(r.Fault))) \ stop, LAMBDA fault_tokens :
             With(Cardinality(symptom_words \cap fault_tokens), LAMBDA overlap :
                 IF no_overlap(overlap) THEN [scored |-> FALSE, final |-> 0]
                 ELSE LET model == normalise_text(r.Model)
                          year == Lower(r.Year)
                          score == overlap * 15 + 6
                                   + (IF model_bonus(model, text_lower, rf) THEN 4 ELSE 0)
                                   + (IF year_bonus(year, text_lower) THEN 3 ELSE 0)
                          fuzzy == fuzzy_ratio(Join(Sorted(symptom_words)),
                                               Join(Sorted(fault_tokens)), rf)
                      IN  [scored |-> TRUE, final |-> score * 10 + fuzzy])))

\* keep_best with >= at line 990: the last of the equal rows wins
keep_best_last_of_equals(st, s) ==
    With(s.scored /\ s.final >= st.best_final, LAMBDA better :
        [i |-> st.i + 1,
         best_row |-> IF better THEN st.i ELSE st.best_row,
         best_final |-> IF better THEN s.final ELSE st.best_final,
         scored |-> IF s.scored
                    THEN Append(st.scored, [row |-> st.i, final |-> s.final])
                    ELSE st.scored])

\* Lines 990-991 after one pass: the loop's state st with row st.i's result s
keep_best(st, s) ==
    With(s.scored /\ s.final > st.best_final, LAMBDA better :
        [i |-> st.i + 1,
         best_row |-> IF better THEN st.i ELSE st.best_row,
         best_final |-> IF better THEN s.final ELSE st.best_final,
         scored |-> IF s.scored
                    THEN Append(st.scored, [row |-> st.i, final |-> s.final])
                    ELSE st.scored])

\* Lines 966-991: the loop over the rows.  best_row is a row's position in
\* the table, 0 for None; scored lists, in table order, the rows that
\* reached line 989 with their final scores.
RECURSIVE scan_rows(_, _, _, _, _)
scan_rows(rows, text_lower, symptom_words, rf, st) ==
    IF st.i > Len(rows) THEN st
    ELSE With(score_row(rows[st.i], text_lower, symptom_words, rf), LAMBDA s :
         With(keep_best(st, s), LAMBDA nxt :
             scan_rows(rows, text_lower, symptom_words, rf, nxt)))

\* below_floor with the comparison turned round
below_floor_inverted(best_row, best_final) == best_row = 0 \/ best_final > 200

\* Line 993: TRUE when the best row is discarded
below_floor(best_row, best_final) == best_row = 0 \/ best_final < 200

\* confidence_of without the clamp
confidence_unclamped(best_final) == 40 + best_final \div 5

\* Line 996
confidence_of(best_final) == Max2(55, Min2(95, 40 + best_final \div 5))

NoMatch == [card |-> 0, score |-> 0, confidence |-> 0, scored |-> <<>>]

\* csv_match(text) with ss.csv_rows = rows.  card is the position of the row
\* the returned card is rendered from (0 when None is returned).
csv_match(text, rows, rf) ==
    IF rows = <<>> THEN NoMatch
    ELSE With(normalise_text(text), LAMBDA text_lower :
             IF ~ passes_prefilters(text_lower) THEN NoMatch
             ELSE With(scan_rows(rows, text_lower, symptom_words_of(text_lower), rf,
                                 [i |-> 1, best_row |-> 0, best_final |-> -1,
                                  scored |-> <<>>]), LAMBDA st :
                      IF below_floor(st.best_row, st.best_final)
                      THEN [NoMatch EXCEPT !.scored = st.scored]
                      ELSE [card |-> st.best_row, score |-> st.best_final,
                            confidence |-> confidence_of(st.best_final),
                            scored |-> st.scored]))

(***************************************************************************)
(* The matcher's inputs.                                                   *)
(***************************************************************************)
\* Words a user message is made of
QueryVocab ==
    { <<"F", "o", "r", "d">>,
      <<"F", "o", "c", "u", "s">>,
      <<"r", "o", "u", "g", "h">>,
      <<"o", "i", "l">>,
      <<"l", "e", "a", "k">>,
      <<"p", "e", "t", "r", "o", "l">> }

\* Rows the fault CSV is made of
RowSet ==
    { [Make |-> <<"F", "o", "r", "d">>, Model |-> <<"F", "o", "c", "u", "s">>,
       Year |-> <<"2", "0", "1", "5", "-", "2", "0", "2", "0">>, Fault |-> <<"r", "o", "u", "g", "h", " ", "i", "d", "l", "e">>],
      [Make |-> <<"F", "o", "r", "d", " ">>, Model |-> <<"F", "o", "c", "u", "s">>,
       Year |-> <<>>, Fault |-> <<"o", "i", "l", " ", "l", "e", "a", "k">>],
      [Make |-> <<"B", "M", "W">>, Model |-> <<>>,
       Year |-> <<>>, Fault |-> <<"r", "o", "u", "g", "h", " ", "i", "d", "l", "e", " ", "o", "i", "l", " ", "l", "e", "a", "k">>],
      [Make |-> <<>>, Model |-> <<>>,
       Year |-> <<>>, Fault |-> <<"r", "o", "u", "g", "h", " ", "i", "d", "l", "e">>] }

SeqsUpTo(S, n) == UNION {[1..k -> S] : k \in 0..n}

\* The sequences of up to n different elements of S
DistinctSeqs(S, n) ==
    {s \in SeqsUpTo(S, n) : \A i, j \in 1..Len(s) : i # j => s[i] # s[j]}

\* Messages that name a year
YearQueries ==
    { <<"F", "o", "r", "d", " ", "r", "o", "u", "g", "h", " ", "2", "0", "1", "5">>,
      <<"2", "0", "2", "0", " ", "F", "o", "r", "d", " ", "F", "o", "c", "u", "s", " ", "l", "e", "a", "k">> }

\* Messages with a punctuation mark next to a word
MarkedQueries == { <<"F", "o", "r", "d", " ", "o", "i", "l", " ", "l", "e", "a", "k", ".">>, <<"F", "o", "r", "d", ":", " ", "r", "o", "u", "g", "h", "?">> }

\* User messages: up to MaxQueryWords different words, separated by blanks,
\* and the messages with a year
Queries ==
    {Join(ws) : ws \in DistinctSeqs(QueryVocab, MaxQueryWords)}
    \cup YearQueries \cup MarkedQueries

\* The first row of RowSet again, its fault words the other way round and
\* its year range open
RowAgain ==
    [Make |-> <<"f", "o", "r", "d">>, Model |-> <<"F", "o", "c", "u", "s">>,
     Year |-> <<"2", "0", "2", "0", "-">>, Fault |-> <<"I", "d", "l", "e", ",", " ", "r", "o", "u", "g", "h">>]

\* Tables in which two rows score the same, with and without a third row
TieTables ==
    LET first == CHOOSE r \in RowSet : r.Make = <<"F", "o", "r", "d">> /\ r.Year # <<>>
        other == CHOOSE r \in RowSet : r.Make = <<"F", "o", "r", "d", " ">>
    IN  { <<first, RowAgain>>, <<RowAgain, first>>,
          <<other, first, RowAgain>>, <<first, other, RowAgain>>,
          <<RowAgain, first, other>>, <<RowAgain, other, first>> }

\* A row whose model is close to a message without being part of it
RowNear ==
    [Make |-> <<"F", "o", "r", "d">>, Model |-> <<"F", "o", "r", "d", "r", "o", "u", "g", "h">>,
     Year |-> <<>>, Fault |-> <<"r", "o", "u", "g", "h", " ", "i", "d", "l", "e">>]

\* Fault tables: up to MaxRows different rows, in any order, the tables
\* with equal rows, and the table of RowNear
Tables == DistinctSeqs(RowSet, MaxRows) \cup TieTables \cup {<<RowNear>>}

(***************************************************************************)
(* The matcher as the chat flow drives it: the script loads the fault CSV, *)
(* a user message arrives, csv_match handles it, and the turn ends.        *)
(***************************************************************************)
\* Lines 1453-1454 and 339-345: ss.csv_rows is (re)loaded while it is empty
load_fault_data ==
    /\ match_pc = "start"
    /\ csv_rows' = (IF csv_rows = <<>> THEN fault_csv ELSE csv_rows)
    /\ match_pc' = "idle"
    /\ UNCHANGED <<have_rapidfuzz, fault_csv, match_text, match_out>>
    /\ UNCHANGED other_than_match

\* A user message is appended to the chat
chat_input ==
    /\ match_pc = "idle"
    /\ \E q \in Queries : match_text' = q
    /\ match_pc' = "pending"
    /\ UNCHANGED <<have_rapidfuzz, fault_csv, csv_rows, match_out>>
    /\ UNCHANGED other_than_match

\* Line 1850: csv_card, _score = csv_match(enriched)
csv_match_call ==
    /\ match_pc = "pending"
    /\ match_out' = csv_match(match_text, csv_rows, have_rapidfuzz)
    /\ match_pc' = "done"
    /\ UNCHANGED <<have_rapidfuzz, fault_csv, csv_rows, match_text>>
    /\ UNCHANGED other_than_match

\* The script run ends; the next run starts from the top
end_turn ==
    /\ match_pc = "done"
    /\ match_pc' = "start"
    /\ match_text' = <<>>
    /\ match_out' = NoMatch
    /\ UNCHANGED <<have_rapidfuzz, fault_csv, csv_rows>>
    /\ UNCHANGED other_than_match

(***************************************************************************)
(* Text utilities of expert_tools.py.                                      *)
(***************************************************************************)
\* Python's None where a string is expected
None == <<"None">>

\* (s or "")
OrEmpty(s) == IF s = None THEN <<>> ELSE s

\* The characters _TOKEN_RE accepts: "0".."9" and "a".."z"
TokenChars == {Ascii[i] : i \in (7..16) \cup (45..70)}

\* _TOKEN_RE.findall: the maximal runs of token characters, in order
RECURSIVE FindTokens(_, _, _)
FindTokens(s, i, cur) ==
    IF i > Len(s) THEN (IF cur = <<>> THEN <<>> ELSE <<cur>>)
    ELSE IF s[i] \in TokenChars THEN FindTokens(s, i + 1, Append(cur, s[i]))
    ELSE (IF cur = <<>> THEN <<>> ELSE <<cur>>) \o FindTokens(s, i + 1, <<>>)

\* Unicode-aware str.lower() leaves the other characters of the model alone
LowerAny(s) == [i \in 1..Len(s) |-> IF s[i] \in Chars THEN LowerChar[s[i]] ELSE s[i]]

tokenize(s) == FindTokens(LowerAny(OrEmpty(s)), 1, <<>>)

\* ChunkTokens without the last, shorter window
RECURSIVE ChunkTokens_full_windows(_, _)
ChunkTokens_full_windows(toks, max_tokens) ==
    IF Len(toks) < max_tokens THEN <<>>
    ELSE <<Join(SubSeq(toks, 1, max_tokens))>>
         \o ChunkTokens_full_windows(SubSeq(toks, max_tokens + 1, Len(toks)), max_tokens)

\* _split_into_chunks(text, max_tokens=max_tokens)
RECURSIVE ChunkTokens(_, _)
ChunkTokens(toks, max_tokens) ==
    IF toks = <<>> THEN <<>>
    ELSE LET n == Min2(max_tokens, Len(toks))
         IN  <<Join(SubSeq(toks, 1, n))>>
             \o ChunkTokens(SubSeq(toks, n + 1, Len(toks)), max_tokens)

split_into_chunks(text, max_tokens) == ChunkTokens(tokenize(text), max_tokens)

\* str.strip()
RECURSIVE LStrip(_)
LStrip(s) == IF s # <<>> /\ s[1] \in Whitespace THEN LStrip(Tail(s)) ELSE s

RECURSIVE RStrip(_)
RStrip(s) ==
    IF s # <<>> /\ s[Len(s)] \in Whitespace THEN RStrip(SubSeq(s, 1, Len(s) - 1)) ELSE s

Strip(s) == RStrip(LStrip(s))

\* sep.join(parts)
RECURSIVE JoinWith(_, _)
JoinWith(parts, sep) ==
    IF parts = <<>> THEN <<>>
    ELSE IF Len(parts) = 1 THEN parts[1]
    ELSE parts[1] \o sep \o JoinWith(Tail(parts), sep)

RECURSIVE Flatten(_)
Flatten(seqs) == IF seqs = <<>> THEN <<>> ELSE seqs[1] \o Flatten(Tail(seqs))

(***************************************************************************)
(* Loaders.  A CSV source is [exists, rows, fail_at]: reading raises at    *)
(* row fail_at (0: never).  A Markdown source is [exists, text, fails].    *)
(***************************************************************************)
\* Line 86-87: the columns a row's sentence is built from, with their labels
csv_keys ==
    << [key |-> "Make", label |-> <<"M", "a", "k", "e">>],
       [key |-> "Model", label |-> <<"M", "o", "d", "e", "l">>],
       [key |-> "Year", label |-> <<"Y", "e", "a", "r">>],
       [key |-> "Fault", label |-> <<"F", "a", "u", "l", "t">>],
       [key |-> "Symptom", label |-> <<"S", "y", "m", "p", "t", "o", "m">>],
       [key |-> "Cause", label |-> <<"C", "a", "u", "s", "e">>],
       [key |-> "Suggested Fix", label |-> <<"S", "u", "g", "g", "e", "s", "t", "e", "d", " ", "F", "i", "x">>],
       [key |-> "Warning Light?", label |-> <<"W", "a", "r", "n", "i", "n", "g", " ", "L", "i", "g", "h", "t", "?">>] >>

\* (row.get(key) or "")
RowGet(row, key) == IF key \in DOMAIN row THEN row[key] ELSE <<>>

\* Lines 85-91: the row's readable line
row_blob(row) ==
    LET present == SelectSeq(csv_keys, LAMBDA c : Strip(RowGet(row, c.key)) # <<>>)
        fields == [i \in 1..Len(present) |->
                      present[i].label \o <<":", " ">> \o Strip(RowGet(row, present[i].key))]
    IN  JoinWith(fields, <<".", " ">>)

\* Lines 92-103: the chunks of one row
row_chunks_keeps_blank(row) ==
    LET toks == tokenize(row_blob(row))
    IN  << [text |-> Join(toks), source |-> "obdly_fault_data.csv",
            meta |-> [Make |-> RowGet(row, "Make"), Model |-> RowGet(row, "Model"),
                      Year |-> RowGet(row, "Year"), Fault |-> RowGet(row, "Fault")]] >>

row_chunks(row) ==
    LET pieces == split_into_chunks(row_blob(row), 200)
    IN  [i \in 1..Len(pieces) |->
            [text |-> pieces[i], source |-> "obdly_fault_data.csv",
             meta |-> [Make |-> RowGet(row, "Make"), Model |-> RowGet(row, "Model"),
                       Year |-> RowGet(row, "Year"), Fault |-> RowGet(row, "Fault")]]]

\* _load_csv_chunks: the rows read before the exception, if any, stay in out
load_csv_chunks(src) ==
    IF ~ src.exists THEN <<>>
    ELSE LET n == IF src.fail_at = 0 THEN Len(src.rows)
                  ELSE Min2(src.fail_at - 1, Len(src.rows))
         IN  Flatten([i \in 1..n |-> row_chunks(src.rows[i])])

\* Where a match of \n#{1,6}\s+ that starts at s[i] ends (0: no match)
heading_end(s, i) ==
    IF i > Len(s) \/ s[i] # "\n" THEN 0
    ELSE LET hashes == CHOOSE h \in 0..Len(s) :
                           /\ \A j \in 1..h : i + j <= Len(s) /\ s[i + j] = "#"
                           /\ ~ (i + h + 1 <= Len(s) /\ s[i + h + 1] = "#")
             blanks == CHOOSE b \in 0..Len(s) :
                           /\ \A j \in 1..b : i + hashes + j <= Len(s)
                                              /\ s[i + hashes + j] \in Whitespace
                           /\ ~ (i + hashes + b + 1 <= Len(s)
                                 /\ s[i + hashes + b + 1] \in Whitespace)
         IN  IF hashes >= 1 /\ hashes <= 6 /\ blanks >= 1 THEN i + hashes + blanks
             ELSE 0

\* re.split(r"\n#{1,6}\s+", text)
RECURSIVE split_headings(_, _, _)
split_headings(s, i, cur) ==
    IF i > Len(s) THEN <<cur>>
    ELSE LET e == heading_end(s, i)
         IN  IF e # 0 THEN <<cur>> \o split_headings(s, e + 1, <<>>)
             ELSE split_headings(s, i + 1, Append(cur, s[i]))

\* _load_md_chunks: read_text either gives the whole text or raises
load_md_chunks(src) ==
    IF ~ src.exists \/ src.fails THEN <<>>
    ELSE LET sections == split_headings(src.text, 1, <<>>)
             kept == SelectSeq([i \in 1..Len(sections) |-> Strip(sections[i])],
                               LAMBDA sec : sec # <<>>)
             pieces == Flatten([i \in 1..Len(kept) |-> split_into_chunks(kept[i], 220)])
         IN  [i \in 1..Len(pieces) |->
                 [text |-> pieces[i], source |-> "procedures.md", meta |-> <<>>]]

(***************************************************************************)
(* Numbers.  math.log is tabulated in thousandths; weights are kept in     *)
(* thousandths, a vector norm is kept as its square, and a cosine as the   *)
(* numerator and the squared norms it is the quotient of, so that          *)
(* similarities compare exactly.                                           *)
(***************************************************************************)
\* round(1000 * math.log(n)) for n = 1..16
LnMilli ==
    <<0, 693, 1099, 1386, 1609, 1792, 1946, 2079,
      2197, 2303, 2398, 2485, 2565, 2639, 2708, 2773>>

\* Line 169: math.log((N + 1) / (df + 1)) + 1.0
idf_of(N, df) == LnMilli[N + 1] - LnMilli[df + 1] + 1000

\* Lines 176, 193, 210: (1.0 + math.log(1.0 + cnt)) * idf
weight(cnt, idf) == ((1000 + LnMilli[1 + cnt]) * idf) \div 1000

\* Natural numbers too wide for a machine word, in limbs of four decimal
\* digits, least significant limb first
RECURSIVE ToLimbs(_)
ToLimbs(n) == IF n = 0 THEN <<>> ELSE <<n % 10000>> \o ToLimbs(n \div 10000)

RECURSIVE SumTo(_, _)
SumTo(f, n) == IF n = 0 THEN 0 ELSE f[n] + SumTo(f, n - 1)

RECURSIVE Carry(_, _, _)
Carry(cols, k, c) ==
    IF k > Len(cols) THEN ToLimbs(c)
    ELSE <<(cols[k] + c) % 10000>> \o Carry(cols, k + 1, (cols[k] + c) \div 10000)

MulLimbs(x, y) ==
    IF x = <<>> \/ y = <<>> THEN <<>>
    ELSE Carry([k \in 1..(Len(x) + Len(y) - 1) |->
                   SumTo([i \in 1..Len(x) |->
                             IF k + 1 - i \in 1..Len(y) THEN x[i] * y[k + 1 - i] ELSE 0],
                         Len(x))],
               1, 0)

RECURSIVE TrimLimbs(_)
TrimLimbs(x) ==
    IF x # <<>> /\ x[Len(x)] = 0 THEN TrimLimbs(SubSeq(x, 1, Len(x) - 1)) ELSE x

RECURSIVE LimbsLessFrom(_, _, _)
LimbsLessFrom(x, y, k) ==
    IF k = 0 THEN FALSE
    ELSE IF x[k] # y[k] THEN x[k] < y[k]
    ELSE LimbsLessFrom(x, y, k - 1)

LimbsLess(a, b) ==
    LET x == TrimLimbs(a)
        y == TrimLimbs(b)
    IN  IF Len(x) # Len(y) THEN Len(x) < Len(y) ELSE LimbsLessFrom(x, y, Len(x))

\* A cosine dot / (sqrt(qn2) * sqrt(dn2)), 0.0 when a norm is 0 (lines 203-212)
SimPositive(s) == s.qn2 # 0 /\ s.dn2 # 0 /\ s.dot > 0

\* s < t for two cosines against the same query: with both positive,
\* s.dot^2 * t.dn2 < t.dot^2 * s.dn2
SimLess(s, t) ==
    IF ~ SimPositive(t) THEN FALSE
    ELSE IF ~ SimPositive(s) THEN TRUE
    ELSE LimbsLess(MulLimbs(MulLimbs(ToLimbs(s.dot), ToLimbs(s.dot)), ToLimbs(t.dn2)),
                   MulLimbs(MulLimbs(ToLimbs(t.dot), ToLimbs(t.dot)), ToLimbs(s.dn2)))

(***************************************************************************)
(* Index builder (_build_index_if_needed) and retrieval.  An index is the  *)
(* record of the module's globals.                                         *)
(***************************************************************************)
\* Lines 135-140: every structure cleared
EmptyIndex ==
    [CHUNKS |-> <<>>, VOCAB |-> <<>>, DF |-> <<>>, DF_keys |-> <<>>, IDF |-> <<>>,
     TF |-> <<>>, TFIDF_NORM |-> <<>>]

\* Line 133: does the build body run?
build_always(built) == TRUE

build_needed(built) == ~ built

\* Counter(tokens): token -> number of occurrences
Counter(tokens) ==
    Table([w \in Range(tokens) |-> Cardinality({i \in 1..Len(tokens) : tokens[i] = w})])

\* The keys of Counter(tokens) in insertion order, after the keys in seen
RECURSIVE FirstSeen(_, _)
FirstSeen(tokens, seen) ==
    IF tokens = <<>> THEN seen
    ELSE With(IF tokens[1] \in Range(seen) THEN seen ELSE Append(seen, tokens[1]),
              LAMBDA s : FirstSeen(Tail(tokens), s))

\* df_add counting occurrences: _DF[w] += tf[w]
df_add_occurrences(df, tf) ==
    Table([w \in DOMAIN df \cup DOMAIN tf |->
              (IF w \in DOMAIN df THEN df[w] ELSE 0) + (IF w \in DOMAIN tf THEN tf[w] ELSE 0)])

\* Lines 159-160: _DF[w] += 1 for the keys of tf
df_add(df, tf) ==
    Table([w \in DOMAIN df \cup DOMAIN tf |->
              (IF w \in DOMAIN df THEN df[w] ELSE 0) + (IF w \in DOMAIN tf THEN 1 ELSE 0)])

\* Lines 155-160, one iteration of the loop, for chunk ch
tf_iteration(ix, ch) ==
    With(tokenize(ch.text), LAMBDA toks :
    With(Counter(toks), LAMBDA tf :
        [ix EXCEPT !.TF = Append(ix.TF, tf),
                   !.DF = df_add(ix.DF, tf),
                   !.DF_keys = FirstSeen(toks, ix.DF_keys)]))

RECURSIVE tf_loop(_, _)
tf_loop(ix, j) ==
    IF j > Len(ix.CHUNKS) THEN ix
    ELSE With(tf_iteration(ix, ix.CHUNKS[j]), LAMBDA nxt : tf_loop(nxt, j + 1))

\* Lines 163-164: _VOCAB[w] = i for the i-th key of _DF (from 0); keys is
\* without repetitions
vocab_positions_from_one(vocab, keys) ==
    Table([t \in DOMAIN vocab \cup Range(keys) |->
              IF t \in Range(keys) THEN CHOOSE i \in 1..Len(keys) : keys[i] = t
              ELSE vocab[t]])

vocab_add(vocab, keys) ==
    Table([t \in DOMAIN vocab \cup Range(keys) |->
              IF t \in Range(keys) THEN (CHOOSE i \in 1..Len(keys) : keys[i] = t) - 1
              ELSE vocab[t]])

\* Lines 167-169: _IDF[t] for the keys of _DF, N = max(1, len(_CHUNKS))
idf_fill(idf, df, chunks) ==
    Table([t \in DOMAIN idf \cup DOMAIN df |->
              IF t \in DOMAIN df THEN idf_of(Max2(1, Len(chunks)), df[t]) ELSE idf[t]])

\* Lines 173-178: a chunk's squared norm
norm2_of(tf, idf) ==
    LET ws == DOMAIN tf
        val == Table([t \in ws |-> weight(tf[t], IF t \in DOMAIN idf THEN idf[t] ELSE 0)])
        keys == Sorted(ws)
    IN  SumTo([i \in 1..Len(keys) |-> val[keys[i]] * val[keys[i]]], Len(keys))

\* Lines 172-178: a norm appended for every element of _TF
norms_add(norms, tfs, idf) == norms \o Table([i \in 1..Len(tfs) |-> norm2_of(tfs[i], idf)])

\* Lines 135-180, run to the end on the chunks the loaders gave
build_index(chunks) ==
    IF chunks = <<>> THEN EmptyIndex
    ELSE With(tf_loop([EmptyIndex EXCEPT !.CHUNKS = chunks], 1), LAMBDA a :
         With(idf_fill(<<>>, a.DF, chunks), LAMBDA idf :
             [a EXCEPT !.VOCAB = vocab_add(<<>>, a.DF_keys),
                       !.IDF = idf,
                       !.TFIDF_NORM = norms_add(<<>>, a.TF, idf)]))

\* _tfidf_query_vec(q)
tfidf_query_vec(q, idf) ==
    LET qtf == Counter(tokenize(q))
        known == {t \in DOMAIN qtf : (IF t \in DOMAIN idf THEN idf[t] ELSE 0) > 0}
    IN  Table([t \in known |-> weight(qtf[t], idf[t])])

\* _l2(vec), squared
l2_squared(vec) ==
    LET keys == Sorted(DOMAIN vec)
    IN  SumTo([i \in 1..Len(keys) |-> vec[keys[i]] * vec[keys[i]]], Len(keys))

\* _cosine(qvec, qnorm, tf, dnorm)
cosine(qvec, qn2, tf, dn2, idf) ==
    LET shared == Sorted(DOMAIN qvec \cap DOMAIN tf)
        dot == SumTo([i \in 1..Len(shared) |->
                         qvec[shared[i]]
                         * weight(tf[shared[i]],
                                  IF shared[i] \in DOMAIN idf THEN idf[shared[i]] ELSE 0)],
                     Len(shared))
    IN  IF qn2 = 0 \/ dn2 = 0 THEN [dot |-> 0, qn2 |-> qn2, dn2 |-> dn2]
        ELSE [dot |-> dot, qn2 |-> qn2, dn2 |-> dn2]

\* Line 230: if s > 0
survives_at_zero(s) == TRUE

survives(s) == SimPositive(s)

\* insert_stable for a sort that is not stable: an element goes ahead of the
\* elements whose key is not larger
RECURSIVE insert_before_equals(_, _)
insert_before_equals(sorted, x) ==
    IF sorted = <<>> THEN <<x>>
    ELSE IF ~ SimLess(x.s, sorted[1].s) THEN <<x>> \o sorted
    ELSE <<sorted[1]>> \o insert_before_equals(Tail(sorted), x)

\* list.sort(reverse=True, key=...) is stable: an element goes behind the
\* elements whose key is not smaller
RECURSIVE insert_stable(_, _)
insert_stable(sorted, x) ==
    IF sorted = <<>> THEN <<x>>
    ELSE IF SimLess(sorted[1].s, x.s) THEN <<x>> \o sorted
    ELSE <<sorted[1]>> \o insert_stable(Tail(sorted), x)

RECURSIVE sort_scores(_, _)
sort_scores(scores, k) ==
    IF k = 0 THEN <<>>
    ELSE With(sort_scores(scores, k - 1), LAMBDA sorted : insert_stable(sorted, scores[k]))

\* Line 234: scores[:max(1, k)]
top_slice_unclamped(sorted, k) == SubSeq(sorted, 1, Min2(Len(sorted), Max2(0, k)))

top_slice(sorted, k) == SubSeq(sorted, 1, Min2(Len(sorted), Max2(1, k)))

\* Lines 229-231, one iteration of the loop: the scores with chunk i's added
score_iteration(scores, ix, qvec, qn2, i) ==
    With(cosine(qvec, qn2, ix.TF[i], ix.TFIDF_NORM[i], ix.IDF), LAMBDA s :
        IF survives(s) THEN Append(scores, [s |-> s, i |-> i]) ELSE scores)

RECURSIVE score_loop(_, _, _, _, _)
score_loop(scores, ix, qvec, qn2, i) ==
    IF i > Len(ix.TF) \/ i > Len(ix.TFIDF_NORM) THEN scores
    ELSE With(score_iteration(scores, ix, qvec, qn2, i),
              LAMBDA nxt : score_loop(nxt, ix, qvec, qn2, i + 1))

\* Lines 233-235: the positions (from 1) of the chunks returned; raised when
\* _CHUNKS[i] is out of range (IndexError)
sort_and_pick(scores, chunks, k) ==
    With(top_slice(sort_scores(scores, Len(scores)), k), LAMBDA top :
        IF \E j \in 1..Len(top) : top[j].i > Len(chunks)
        THEN [raised |-> TRUE, docs |-> <<>>]
        ELSE [raised |-> FALSE, docs |-> Table([j \in 1..Len(top) |-> top[j].i])])

\* Lines 221-235 on index ix, run to the end; raised when _TFIDF_NORM[i] is
\* out of range (IndexError)
score_and_rank(ix, query, k) ==
    IF ix.CHUNKS = <<>> THEN [raised |-> FALSE, docs |-> <<>>]
    ELSE IF Len(ix.TFIDF_NORM) < Len(ix.TF) THEN [raised |-> TRUE, docs |-> <<>>]
    ELSE With(tfidf_query_vec(OrEmpty(query), ix.IDF), LAMBDA qvec :
         With(score_loop(<<>>, ix, qvec, l2_squared(qvec), 1), LAMBDA scores :
             sort_and_pick(scores, ix.CHUNKS, k)))

\* Lines 367-373: the query triage_and_rank retrieves with
triage_query(symptoms_text, vehicle) ==
    LET query == OrEmpty(symptoms_text)
    IN  IF vehicle = <<>> THEN query
        ELSE LET mk == Strip(vehicle.make)
                 md == Strip(vehicle.model)
                 yr == Strip(vehicle.yearOfManufacture)
             IN  IF mk # <<>> \/ md # <<>> \/ yr # <<>>
                 THEN mk \o <<" ">> \o md \o <<" ">> \o yr \o <<" ", ":", ":", " ">> \o query
                 ELSE query

\* Line 387: round(0.55 + 0.45 * (n - i) / n, 3) in thousandths, for the
\* i-th of n documents (i from 0, n <= 5)
rank_score(n, i) == (2 * (550 * n + 450 * (n - i)) + n) \div (2 * n)

\* Lines 376-399: the ranked list built from the retrieved documents
ranked_faults(ix, docs) ==
    IF docs = <<>>
    THEN << [fault |-> "General diagnostic path", score |-> 600, source |-> "heuristic"] >>
    ELSE Table([j \in 1..Len(docs) |->
                   [fault |-> LET m == ix.CHUNKS[docs[j]].meta
                              IN  IF RowGet(m, "Fault") # <<>> THEN m.Fault
                                  ELSE "Relevant diagnostic",
                    score |-> rank_score(Max2(1, Len(docs)), j - 1),
                    source |-> ix.CHUNKS[docs[j]].source]])

(***************************************************************************)
(* The retriever's inputs.                                                 *)
(***************************************************************************)
CorpusRows ==
    { [Make |-> <<"F", "o", "r", "d">>, Fault |-> <<"r", "o", "u", "g", "h", " ", "i", "d", "l", "e">>],
      [Make |-> <<"B", "M", "W", " ">>, Fault |-> <<"O", "i", "l", " ", "l", "e", "a", "k", ",", " ", "r", "o", "u", "g", "h">>],
      [Make |-> <<" ">>, Fault |-> <<>>] }

\* obdly_fault_data.csv: missing, readable, or raising at its last row
CsvSources ==
    {[exists |-> FALSE, rows |-> <<>>, fail_at |-> 0]}
    \cup {[exists |-> TRUE, rows |-> rs, fail_at |-> f] :
             rs \in DistinctSeqs(CorpusRows, MaxRows), f \in {0}}
    \cup {[exists |-> TRUE, rows |-> rs, fail_at |-> Len(rs)] :
             rs \in DistinctSeqs(CorpusRows, MaxRows) \ {<<>>}}

MdTexts ==
    { <<"#", " ", "B", "r", "a", "k", "e", "s", "\n", "r", "o", "u", "g", "h", " ", "i", "d", "l", "e", "\n", "#", "#", " ", "O", "i", "l", "\n", "o", "i", "l", " ", "l", "e", "a", "k", " ", "o", "i", "l">>,
      <<"r", "o", "u", "g", "h", " ", "i", "d", "l", "e", "\n", "#", " ", "R", "o", "u", "g", "h", " ", "i", "d", "l", "e">> }

\* procedures.md: missing, unreadable, or one of the texts
MdSources ==
    {[exists |-> FALSE, text |-> <<>>, fails |-> FALSE],
     [exists |-> TRUE, text |-> <<>>, fails |-> TRUE]}
    \cup {[exists |-> TRUE, text |-> t, fails |-> FALSE] : t \in MdTexts}

IndexVocab ==
    { <<"F", "o", "r", "d">>,
      <<"r", "o", "u", "g", "h">>,
      <<"o", "i", "l", "!">> }

IndexQueries == {None} \cup {Join(ws) : ws \in DistinctSeqs(IndexVocab, MaxIndexWords)}

KValues == (0 - 1)..MaxK

\* triage_and_rank's vehicle argument: None, or a dict
Vehicles ==
    { <<>>,
      [make |-> <<"B", "M", "W">>, model |-> <<>>, yearOfManufacture |-> <<>>] }

(***************************************************************************)
(* The retriever in a single-threaded process: a caller asks for a         *)
(* retrieval or a triage, the handler runs to completion, and the result   *)
(* goes back to the caller.                                                *)
(***************************************************************************)
IdleCall ==
    [phase |-> "idle", op |-> "", query |-> <<>>, k |-> 0, vehicle |-> <<>>,
     reused |-> FALSE, raised |-> FALSE, docs |-> <<>>, out |-> <<>>]

TheIndex ==
    [CHUNKS |-> CHUNKS, VOCAB |-> VOCAB, DF |-> DF, DF_keys |-> DF_keys, IDF |-> IDF,
     TF |-> TF, TFIDF_NORM |-> TFIDF_NORM]

SetIndex(ix) ==
    /\ CHUNKS' = ix.CHUNKS
    /\ VOCAB' = ix.VOCAB
    /\ DF' = ix.DF
    /\ DF_keys' = ix.DF_keys
    /\ IDF' = ix.IDF
    /\ TF' = ix.TF
    /\ TFIDF_NORM' = ix.TFIDF_NORM

\* Lines 143-147: what the two loaders give
load_corpus == load_csv_chunks(corpus.csv) \o load_md_chunks(corpus.md)

\* _build_index_if_needed() run to completion: the index afterwards
index_after_build ==
    IF build_needed(INDEX_BUILT) THEN build_index(load_corpus) ELSE TheIndex

InitIndexVars ==
    /\ INDEX_BUILT = FALSE
    /\ CHUNKS = <<>> /\ VOCAB = <<>> /\ DF = <<>> /\ DF_keys = <<>>
    /\ IDF = <<>> /\ TF = <<>> /\ TFIDF_NORM = <<>>
    /\ build_runs = 0

not_index == <<match_vars, pc, th, card_vars, tool_vars>>

\* The texts of the chunks the files give
ChunkTexts == {c.text : c \in Range(load_corpus)}

\* A caller asks with one of the queries or with the text of a chunk
call_retrieve_context ==
    /\ last_call.phase = "idle"
    /\ \E q \in IndexQueries \cup ChunkTexts, k \in KValues :
          last_call' = [IdleCall EXCEPT !.phase = "pending", !.op = "retrieve_context",
                                        !.query = q, !.k = k]
    /\ UNCHANGED <<corpus, INDEX_BUILT, index_vars, build_runs, not_index>>

call_triage_and_rank ==
    /\ last_call.phase = "idle"
    /\ \E q \in IndexQueries, v \in Vehicles :
          last_call' = [IdleCall EXCEPT !.phase = "pending", !.op = "triage_and_rank",
                                        !.query = q, !.vehicle = v]
    /\ UNCHANGED <<corpus, INDEX_BUILT, index_vars, build_runs, not_index>>

\* retrieve_context(query, k), lines 215-235
retrieve_context ==
    /\ last_call.phase = "pending"
    /\ last_call.op = "retrieve_context"
    /\ \E ix \in {index_after_build} :
       \E r \in {score_and_rank(ix, last_call.query, last_call.k)} :
           /\ SetIndex(ix)
           /\ last_call' = [last_call EXCEPT !.phase = "returned", !.reused = INDEX_BUILT,
                                             !.raised = r.raised, !.docs = r.docs]
    /\ build_runs' = build_runs + (IF build_needed(INDEX_BUILT) THEN 1 ELSE 0)
    /\ INDEX_BUILT' = TRUE
    /\ UNCHANGED <<corpus, not_index>>

\* triage_and_rank(symptoms_text, vehicle), lines 360-409; severity and
\* category are functions of symptoms_text alone and are left out of out
triage_and_rank ==
    /\ last_call.phase = "pending"
    /\ last_call.op = "triage_and_rank"
    /\ \E ix \in {index_after_build} :
       \E r \in {score_and_rank(ix, triage_query(last_call.query, last_call.vehicle), 5)} :
           /\ SetIndex(ix)
           /\ last_call' = [last_call EXCEPT
                               !.phase = "returned", !.reused = INDEX_BUILT,
                               !.raised = r.raised, !.docs = r.docs,
                               !.out = IF r.raised THEN <<>> ELSE ranked_faults(ix, r.docs)]
    /\ build_runs' = build_runs + (IF build_needed(INDEX_BUILT) THEN 1 ELSE 0)
    /\ INDEX_BUILT' = TRUE
    /\ UNCHANGED <<corpus, not_index>>

return_to_caller ==
    /\ last_call.phase = "returned"
    /\ last_call' = IdleCall
    /\ UNCHANGED <<corpus, INDEX_BUILT, index_vars, build_runs, not_index>>

(***************************************************************************)
(* Two threads of one process calling retrieve_context.  The module has no *)
(* lock; a thread can be preempted between any two statements, and a step  *)
(* here is one statement or one whole loop.  pc[t] is the line thread t    *)
(* executes next.                                                          *)
(***************************************************************************)
Threads == {"t1", "t2"}

ThreadCorpora ==
    { [csv |-> [exists |-> FALSE, rows |-> <<>>, fail_at |-> 0],
       md |-> [exists |-> FALSE, text |-> <<>>, fails |-> FALSE]],
      [csv |-> [exists |-> TRUE,
                rows |-> << [Make |-> <<"F", "o", "r", "d">>, Fault |-> <<"r", "o", "u", "g", "h", " ", "i", "d", "l", "e">>] >>,
                fail_at |-> 0],
       md |-> [exists |-> TRUE, text |-> <<"r", "o", "u", "g", "h", " ", "i", "d", "l", "e", "\n", "#", " ", "O", "i", "l", " ", "l", "e", "a", "k">>, fails |-> FALSE]] }

ThreadQueries == { <<"r", "o", "u", "g", "h">>, <<"o", "i", "l", " ", "i", "d", "l", "e">> }

IdleThread ==
    [query |-> <<>>, k |-> 0, qvec |-> <<>>, qn2 |-> 0,
     scores |-> <<>>, raised |-> FALSE, docs |-> <<>>, calls |-> 0]

BuildLines == {"line135", "line146", "line147", "line150", "line155", "line163",
               "line167", "line172", "line180"}

ScoreLines == {"line225", "line228", "line233"}

not_threads == <<match_vars, last_call, card_vars, tool_vars>>

\* A thread calls retrieve_context(query, k)
thread_call(t) ==
    /\ pc[t] = "idle"
    /\ th[t].calls < MaxCalls
    /\ \E q \in ThreadQueries, k \in {MaxK} :
          th' = [th EXCEPT ![t] = [IdleThread EXCEPT !.query = q, !.k = k,
                                                      !.calls = th[t].calls + 1]]
    /\ pc' = [pc EXCEPT ![t] = "line133"]
    /\ UNCHANGED <<corpus, INDEX_BUILT, index_vars, build_runs, not_threads>>

\* Lines 133-134: if _INDEX_BUILT: return
line133(t) ==
    /\ pc[t] = "line133"
    /\ pc' = [pc EXCEPT ![t] = IF build_needed(INDEX_BUILT) THEN "line135" ELSE "line222"]
    /\ build_runs' = build_runs + (IF build_needed(INDEX_BUILT) THEN 1 ELSE 0)
    /\ UNCHANGED <<corpus, INDEX_BUILT, index_vars, th, not_threads>>

\* Lines 135-140: the six clear() calls
line135(t) ==
    /\ pc[t] = "line135"
    /\ SetIndex(EmptyIndex)
    /\ pc' = [pc EXCEPT ![t] = "line146"]
    /\ UNCHANGED <<corpus, INDEX_BUILT, build_runs, th, not_threads>>

\* Line 146: _CHUNKS.extend(_load_csv_chunks(csv_path))
line146(t) ==
    /\ pc[t] = "line146"
    /\ CHUNKS' = CHUNKS \o load_csv_chunks(corpus.csv)
    /\ pc' = [pc EXCEPT ![t] = "line147"]
    /\ UNCHANGED <<corpus, INDEX_BUILT, VOCAB, DF, DF_keys, IDF, TF, TFIDF_NORM,
                   build_runs, th, not_threads>>

\* Line 147: _CHUNKS.extend(_load_md_chunks(md_path))
line147(t) ==
    /\ pc[t] = "line147"
    /\ CHUNKS' = CHUNKS \o load_md_chunks(corpus.md)
    /\ pc' = [pc EXCEPT ![t] = "line150"]
    /\ UNCHANGED <<corpus, INDEX_BUILT, VOCAB, DF, DF_keys, IDF, TF, TFIDF_NORM,
                   build_runs, th, not_threads>>

\* Lines 150-152: if not _CHUNKS: _INDEX_BUILT = True; return
line150(t) ==
    /\ pc[t] = "line150"
    /\ IF CHUNKS = <<>>
       THEN /\ INDEX_BUILT' = TRUE
            /\ pc' = [pc EXCEPT ![t] = "line222"]
            /\ th' = th
       ELSE /\ INDEX_BUILT' = INDEX_BUILT
            /\ pc' = [pc EXCEPT ![t] = "line155"]
            /\ th' = th
    /\ UNCHANGED <<corpus, index_vars, build_runs, not_threads>>

\* Lines 155-160: the loop over _CHUNKS
line155(t) ==
    /\ pc[t] = "line155"
    /\ \E ix \in {tf_loop(TheIndex, 1)} : SetIndex(ix)
    /\ pc' = [pc EXCEPT ![t] = "line163"]
    /\ UNCHANGED <<corpus, INDEX_BUILT, build_runs, th, not_threads>>

\* Lines 163-164: the vocabulary
line163(t) ==
    /\ pc[t] = "line163"
    /\ VOCAB' = vocab_add(VOCAB, DF_keys)
    /\ pc' = [pc EXCEPT ![t] = "line167"]
    /\ UNCHANGED <<corpus, INDEX_BUILT, CHUNKS, DF, DF_keys, IDF, TF, TFIDF_NORM,
                   build_runs, th, not_threads>>

\* Lines 167-169: the inverse document frequencies
line167(t) ==
    /\ pc[t] = "line167"
    /\ IDF' = idf_fill(IDF, DF, CHUNKS)
    /\ pc' = [pc EXCEPT ![t] = "line172"]
    /\ UNCHANGED <<corpus, INDEX_BUILT, CHUNKS, VOCAB, DF, DF_keys, TF, TFIDF_NORM,
                   build_runs, th, not_threads>>

\* Lines 172-178: the norms
line172(t) ==
    /\ pc[t] = "line172"
    /\ TFIDF_NORM' = norms_add(TFIDF_NORM, TF, IDF)
    /\ pc' = [pc EXCEPT ![t] = "line180"]
    /\ UNCHANGED <<corpus, INDEX_BUILT, CHUNKS, VOCAB, DF, DF_keys, IDF, TF,
                   build_runs, th, not_threads>>

\* Line 180: _INDEX_BUILT = True
line180(t) ==
    /\ pc[t] = "line180"
    /\ INDEX_BUILT' = TRUE
    /\ pc' = [pc EXCEPT ![t] = "line222"]
    /\ UNCHANGED <<corpus, index_vars, build_runs, th, not_threads>>

\* Lines 221-222: if not _CHUNKS: return []
line222(t) ==
    /\ pc[t] = "line222"
    /\ pc' = [pc EXCEPT ![t] = IF CHUNKS = <<>> THEN "returned" ELSE "line225"]
    /\ UNCHANGED <<corpus, INDEX_BUILT, index_vars, build_runs, th, not_threads>>

\* Lines 225-227: qvec, qnorm, scores = []
line225(t) ==
    /\ pc[t] = "line225"
    /\ \E qvec \in {tfidf_query_vec(OrEmpty(th[t].query), IDF)} :
          th' = [th EXCEPT ![t].qvec = qvec, ![t].qn2 = l2_squared(qvec),
                           ![t].scores = <<>>]
    /\ pc' = [pc EXCEPT ![t] = "line228"]
    /\ UNCHANGED <<corpus, INDEX_BUILT, index_vars, build_runs, not_threads>>

\* Lines 228-231: the loop over _TF; _TFIDF_NORM[i] raises IndexError when the
\* list is shorter than _TF
line228(t) ==
    /\ pc[t] = "line228"
    /\ IF Len(TFIDF_NORM) < Len(TF)
       THEN /\ pc' = [pc EXCEPT ![t] = "returned"]
            /\ th' = [th EXCEPT ![t].raised = TRUE]
       ELSE /\ pc' = [pc EXCEPT ![t] = "line233"]
            /\ th' = [th EXCEPT ![t].scores = score_loop(<<>>, TheIndex, th[t].qvec,
                                                         th[t].qn2, 1)]
    /\ UNCHANGED <<corpus, INDEX_BUILT, index_vars, build_runs, not_threads>>

\* Lines 233-235: sort, slice, and look the chunks up
line233(t) ==
    /\ pc[t] = "line233"
    /\ \E r \in {sort_and_pick(th[t].scores, CHUNKS, th[t].k)} :
          th' = [th EXCEPT ![t].raised = r.raised, ![t].docs = r.docs]
    /\ pc' = [pc EXCEPT ![t] = "returned"]
    /\ UNCHANGED <<corpus, INDEX_BUILT, index_vars, build_runs, not_threads>>

\* The caller takes the result (or the exception) and the thread is free again
thread_return(t) ==
    /\ pc[t] = "returned"
    /\ pc' = [pc EXCEPT ![t] = "idle"]
    /\ th' = [th EXCEPT ![t] = [IdleThread EXCEPT !.calls = th[t].calls]]
    /\ UNCHANGED <<corpus, INDEX_BUILT, index_vars, build_runs, not_threads>>

(***************************************************************************)
(* OBD code detection (obdly_app.py).                                      *)
(***************************************************************************)
DigitChars == {Ascii[i] : i \in 7..16}

\* \w of the re module over the characters that occur in the model's texts
WordChars == DigitChars \cup {Ascii[i] : i \in 19..70} \cup {"_"}

\* [PBCU] under re.IGNORECASE
CodeLetters == {"P", "B", "C", "U", "p", "b", "c", "u"}

\* str.upper() on one character, and on a string
UpperChar(c) == IF c \in Chars /\ OrdOf[c] >= 45 THEN Ascii[OrdOf[c] - 26] ELSE c

Upper(s) == [i \in 1..Len(s) |-> UpperChar(s[i])]

\* \b at the gap in front of s[i], for i in 1..Len(s)+1
word_boundary(s, i) ==
    (i > 1 /\ s[i - 1] \in WordChars) # (i <= Len(s) /\ s[i] \in WordChars)

\* code_match_at without the closing \b
code_match_no_closing_boundary(s, i) ==
    /\ i + 4 <= Len(s)
    /\ word_boundary(s, i)
    /\ s[i] \in CodeLetters
    /\ \A j \in 1..4 : s[i + j] \in DigitChars

\* Line 419: _CODE_FINDER_RE, \b([PBCU]\d{4})\b, matches starting at s[i]
code_match_at(s, i) ==
    /\ i + 4 <= Len(s)
    /\ word_boundary(s, i)
    /\ s[i] \in CodeLetters
    /\ \A j \in 1..4 : s[i + j] \in DigitChars
    /\ word_boundary(s, i + 5)

\* Line 425: finditer scans from the left and goes on behind each match;
\* the set comprehension collects the upper-cased groups
RECURSIVE finditer(_, _)
finditer(s, i) ==
    IF i > Len(s) THEN {}
    ELSE IF code_match_at(s, i)
         THEN {Upper(SubSeq(s, i, i + 4))} \cup finditer(s, i + 5)
         ELSE finditer(s, i + 1)

\* Lines 422-426; the list made from the set is in no particular order
find_obd_codes_in_text(text) ==
    IF text = None \/ text = <<>> THEN {} ELSE finditer(text, 1)

(***************************************************************************)
(* render_code_card (obdly_app.py).  The card is kept as the parts its     *)
(* f-strings put between the fixed markup.                                 *)
(***************************************************************************)
\* Truthiness of an optional string argument
Falsy(s) == s = None \/ s = <<>>

\* Lines 436-444
keep_make_of(keep_make) ==
    IF Falsy(keep_make) THEN keep_make
    ELSE LET m == Strip(LowerAny(keep_make))
         IN  IF m \in {<<"m", "e", "r", "c", "e", "d", "e", "s", "-", "b", "e", "n", "z">>, <<"m", "e", "r", "c">>, <<"m", "b">>} THEN <<"m", "e", "r", "c", "e", "d", "e", "s">>
             ELSE IF m = <<"v", "w">> THEN <<"v", "o", "l", "k", "s", "w", "a", "g", "e", "n">>
             ELSE IF m = <<"l", "a", "n", "d", " ", "r", "o", "v", "e", "r">> THEN <<"l", "a", "n", "d", "r", "o", "v", "e", "r">>
             ELSE m

\* Lines 461-468
all_makes ==
    << <<"f", "o", "r", "d">>, <<"b", "m", "w">>, <<"m", "e", "r", "c", "e", "d", "e", "s">>, <<"v", "o", "l", "k", "s", "w", "a", "g", "e", "n">>, <<"a", "u", "d", "i">>, <<"v", "a", "u", "x", "h", "a", "l", "l">>,
       <<"o", "p", "e", "l">>, <<"p", "e", "u", "g", "e", "o", "t">>, <<"c", "i", "t", "r", "o", "e", "n">>, <<"r", "e", "n", "a", "u", "l", "t">>, <<"t", "o", "y", "o", "t", "a">>, <<"h", "o", "n", "d", "a">>,
       <<"n", "i", "s", "s", "a", "n">>, <<"m", "a", "z", "d", "a">>, <<"h", "y", "u", "n", "d", "a", "i">>, <<"k", "i", "a">>, <<"s", "k", "o", "d", "a">>, <<"s", "e", "a", "t">>, <<"v", "o", "l", "v", "o">>,
       <<"m", "i", "n", "i">>, <<"j", "a", "g", "u", "a", "r">>, <<"l", "a", "n", "d", "r", "o", "v", "e", "r">>, <<"f", "i", "a", "t">>, <<"a", "l", "f", "a", " ", "r", "o", "m", "e", "o">>, <<"d", "a", "c", "i", "a">>,
       <<"t", "e", "s", "l", "a">>, <<"m", "i", "t", "s", "u", "b", "i", "s", "h", "i">>, <<"s", "u", "z", "u", "k", "i">>, <<"s", "u", "b", "a", "r", "u">>, <<"l", "e", "x", "u", "s">>, <<"p", "o", "r", "s", "c", "h", "e">>,
       <<"s", "a", "a", "b">> >>

\* Lines 507-510
list_makes ==
    << <<"f", "o", "r", "d">>, <<"b", "m", "w">>, <<"m", "e", "r", "c", "e", "d", "e", "s">>, <<"v", "o", "l", "k", "s", "w", "a", "g", "e", "n">>, <<"a", "u", "d", "i">>, <<"v", "a", "u", "x", "h", "a", "l", "l">>,
       <<"p", "e", "u", "g", "e", "o", "t">>, <<"c", "i", "t", "r", "o", "e", "n">>, <<"r", "e", "n", "a", "u", "l", "t">>, <<"t", "o", "y", "o", "t", "a">>, <<"h", "o", "n", "d", "a">>, <<"n", "i", "s", "s", "a", "n">> >>

\* any(make in text for make in makes)
mentions_any(makes, text) == \E k \in 1..Len(makes) : Contains(makes[k], text)

SentenceEnd == {".", "!", "?"}

RECURSIVE SkipWhitespace(_, _)
SkipWhitespace(s, i) ==
    IF i <= Len(s) /\ s[i] \in Whitespace THEN SkipWhitespace(s, i + 1) ELSE i

\* re.split(r'(?<=[.!?])\s+', text)
RECURSIVE SplitSentencesFrom(_, _, _)
SplitSentencesFrom(s, i, cur) ==
    IF i > Len(s) THEN <<cur>>
    ELSE IF s[i] \in Whitespace /\ i > 1 /\ s[i - 1] \in SentenceEnd
         THEN <<cur>> \o SplitSentencesFrom(s, SkipWhitespace(s, i), <<>>)
         ELSE SplitSentencesFrom(s, i + 1, Append(cur, s[i]))

\* Line 456
sentences_of(text) ==
    LET parts == SplitSentencesFrom(text, 1, <<>>)
    IN  [k \in 1..Len(parts) |-> Strip(parts[k])]

\* keep_sentence that drops every sentence naming a make, the target's too
keep_sentence_no_target(sentence, keep_make) ==
    ~ mentions_any(all_makes, LowerAny(sentence))

\* Lines 470-484: what the loop does with one sentence
keep_sentence(sentence, keep_make) ==
    LET sentence_lower == LowerAny(sentence)
    IN  IF mentions_any(all_makes, sentence_lower)
        THEN Contains(keep_make, sentence_lower)
        ELSE TRUE

\* Lines 446-486; keep_make is the normalised one of the enclosing call
strip_other_brands(text, keep_make) ==
    IF text = <<>> THEN <<>>
    ELSE IF Falsy(keep_make) THEN text
    ELSE JoinWith(SelectSeq(sentences_of(text),
                            LAMBDA s : keep_sentence(s, keep_make)), <<" ">>)

\* Lines 488-491
fmt_severity(s) ==
    IF s = <<>> THEN <<>>
    ELSE LET t == StrReplace(s, <<"_">>, <<" ">>)
         IN  <<UpperChar(t[1])>> \o Tail(t)

\* html.escape(s), quote=True
escape_char(c) ==
    CASE c = "&" -> <<"&", "a", "m", "p", ";">>
      [] c = "<" -> <<"&", "l", "t", ";">>
      [] c = ">" -> <<"&", "g", "t", ";">>
      [] c = "\"" -> <<"&", "q", "u", "o", "t", ";">>
      [] c = "'" -> <<"&", "#", "x", "2", "7", ";">>
      [] OTHER -> <<c>>

RECURSIVE html_escape(_)
html_escape(s) == IF s = <<>> THEN <<>> ELSE escape_char(s[1]) \o html_escape(Tail(s))

\* Lines 504-518: what the loop does with one item
keep_item(item, keep_make) ==
    LET item_str == LowerAny(item)
    IN  IF mentions_any(list_makes, item_str)
        THEN Contains(keep_make, item_str)
        ELSE TRUE

\* Lines 500-519
filter_list(items, keep_make) ==
    IF items = <<>> \/ Falsy(keep_make) THEN items
    ELSE SelectSeq(items, LAMBDA item : keep_item(item, keep_make))

\* Lines 525-529: the <li> texts, <<>> standing for the dash of an empty list
ul(items) ==
    LET shown == SubSeq(items, 1, Min2(8, Len(items)))
    IN  [k \in 1..Len(shown) |-> html_escape(shown[k])]

NoDescription == <<"N", "o", " ", "d", "e", "s", "c", "r", "i", "p", "t", "i", "o", "n", " ", "a", "v", "a", "i", "l", "a", "b", "l", "e", ".">>
NotSpecified == <<"N", "o", "t", " ", "s", "p", "e", "c", "i", "f", "i", "e", "d">>

\* Lines 430-539
render_code_card(code, entry, keep_make_arg) ==
    LET keep_make == keep_make_of(keep_make_arg)
        desc == html_escape(strip_other_brands(entry.description, keep_make))
        sev == html_escape(fmt_severity(entry.severity))
    IN  [code |-> html_escape(code),
         title |-> html_escape(entry.title),
         desc |-> IF desc = <<>> THEN NoDescription ELSE desc,
         severity |-> IF sev = <<>> THEN NotSpecified ELSE sev,
         symptoms |-> ul(filter_list(entry.symptoms, keep_make)),
         causes |-> ul(filter_list(entry.causes, keep_make)),
         fixes |-> ul(filter_list(entry.fixes, keep_make))]

\* Lines 1825-1827: the block of a code without an entry
no_local_details(code) ==
    [code |-> html_escape(code), title |-> <<>>,
     desc |-> <<"N", "o", " ", "l", "o", "c", "a", "l", " ", "d", "e", "t", "a", "i", "l", "s", " ", "f", "o", "u", "n", "d", ".">>, severity |-> <<>>,
     symptoms |-> <<>>, causes |-> <<>>, fixes |-> <<>>]

(***************************************************************************)
(* decode_code (expert_tools.py).                                          *)
(***************************************************************************)
\* dict.get(key, default) on a dict kept as a function
DictGet(d, key, default) == IF key \in DOMAIN d THEN d[key] ELSE default

\* Lines 241-253; cache.loaded is "_OBD_CODES_CACHE is not None"
load_obd_codes(cache, file) ==
    IF cache.loaded THEN cache
    ELSE IF ~ file.exists THEN [loaded |-> TRUE, db |-> <<>>]
    ELSE IF ~ file.parses THEN [loaded |-> TRUE, db |-> <<>>]
    ELSE [loaded |-> TRUE, db |-> file.data]

\* Line 257
clean_code(pcode) == StrReplace(Upper(Strip(OrEmpty(pcode))), <<" ">>, <<>>)

\* family_of for a key of two characters and "xx"
family_of_two(code) == IF Len(code) >= 3 THEN SubSeq(code, 1, 2) \o <<"x", "x">> ELSE code

\* Line 290
family_of(code) == IF Len(code) >= 3 THEN SubSeq(code, 1, 3) \o <<"x", "x">> ELSE code

\* Lines 300-306
system_name(code) ==
    CASE code[1] = "P" -> <<"P", "o", "w", "e", "r", "t", "r", "a", "i", "n">>
      [] code[1] = "B" -> <<"B", "o", "d", "y">>
      [] code[1] = "C" -> <<"C", "h", "a", "s", "s", "i", "s">>
      [] code[1] = "U" -> <<"N", "e", "t", "w", "o", "r", "k">>
      [] OTHER -> <<"U", "n", "k", "n", "o", "w", "n">>

\* Lines 262-270
blank_out(code) ==
    [code |-> code, title |-> <<>>, desc |-> <<>>, common_causes |-> <<>>,
     tests |-> <<>>, severity |-> <<"u", "n", "k", "n", "o", "w", "n">>, notes |-> <<>>]

\* out.update({...}) of lines 274-280 and 293-299
updated(out, d, title_default) ==
    [out EXCEPT !.title = DictGet(d, "title", title_default),
                !.desc = DictGet(d, "desc", <<>>),
                !.common_causes = DictGet(d, "common_causes", <<>>),
                !.tests = DictGet(d, "tests", <<>>),
                !.severity = DictGet(d, "severity", <<"u", "n", "k", "n", "o", "w", "n">>)]

\* Lines 256-310, with db the dict _load_obd_codes() returned; {} is <<>>
decode_code(pcode, make, model, db) ==
    LET code == clean_code(pcode)
        out == blank_out(code)
        family == family_of(code)
    IN  IF code = <<>> THEN <<>>
        ELSE IF code \in DOMAIN db
        THEN [updated(out, db[code], <<>>) EXCEPT
                !.notes = IF make # <<>> \/ model # <<>>
                          THEN << <<"T", "i", "p", ":", " ", "s", "e", "a", "r", "c", "h", " ">> \o make \o <<" ">> \o model \o <<" ">>
                                  \o code \o <<" ", "f", "o", "r", " ", "T", "S", "B", "s", " ", "o", "r", " ", "c", "o", "m", "m", "o", "n", " ", "f", "i", "x", "e", "s", ".">> >>
                          ELSE <<>>]
        ELSE IF family \in DOMAIN db
        THEN [updated(out, db[family], code \o <<" ", "(", "f", "a", "m", "i", "l", "y", " ", "g", "u", "i", "d", "a", "n", "c", "e", ")">>) EXCEPT
                !.notes = << <<"N", "o", " ", "e", "x", "a", "c", "t", " ", "m", "a", "t", "c", "h", ".", " ", "U", "s", "i", "n", "g", " ">> \o family
                             \o <<" ", "f", "a", "m", "i", "l", "y", " ", "g", "u", "i", "d", "a", "n", "c", "e", ".">> >>]
        ELSE [out EXCEPT
                !.title = system_name(code) \o <<" ", "D", "T", "C", " ">> \o code,
                !.desc = <<"G", "e", "n", "e", "r", "i", "c", " ", "O", "B", "D", "-", "I", "I", " ", "f", "a", "u", "l", "t", " ", "c", "o", "d", "e", ".", " ", "N", "o", "t", " ", "f", "o", "u", "n", "d", " ", "i", "n", " ", "l", "o", "c", "a", "l", " ", "d", "a", "t", "a", "b", "a", "s", "e", ".">>,
                !.notes = << <<"C", "h", "e", "c", "k", " ", "f", "r", "e", "e", "z", "e", "-", "f", "r", "a", "m", "e", " ", "d", "a", "t", "a", " ", "a", "n", "d", " ", "m", "a", "n", "u", "f", "a", "c", "t", "u", "r", "e", "r", " ", "s", "e", "r", "v", "i", "c", "e", " ", "i", "n", "f", "o", ".">> >>]

(***************************************************************************)
(* Inputs of the code cards and of the decoder.                            *)
(***************************************************************************)
CodeVocab ==
    { <<"P", "0", "3", "0", "1">>, <<"p", "0", "3", "0", "1">>, <<"(", "b", "1", "3", "4", "2", ")", ",">>,
      <<"P", "0", "3", "0">>, <<"P", "0", "3", "0", "1", "1">>, <<"x", "U", "0", "1", "0", "0">>,
      <<"C", "1", "2", "3", "4", "_">> }

\* last_user_msg: up to MaxCodeWords different words, separated by blanks
CodeMessages == {None} \cup {Join(ws) : ws \in DistinctSeqs(CodeVocab, MaxCodeWords)}

\* inf_make of lines 1783-1789: nothing detected, a make named in the
\* message, or the lower-cased make of the looked-up vehicle
InferredMakes ==
    { None, <<"f", "o", "r", "d">>, <<"v", "w">>, <<"m", "e", "r", "c", "e", "d", "e", "s", "-", "b", "e", "n", "z">>, <<"m", "a", "z", "d", "a">>, <<"l", "a", "n", "d", " ", "r", "o", "v", "e", "r">> }

EntryMisfire ==
    [title |-> <<"M", "i", "s", "f", "i", "r", "e", " ", "<", "c", "y", "l", " ", "1", ">">>,
     description |-> <<"M", "i", "s", "f", "i", "r", "e", " ", "f", "o", "u", "n", "d", ".", " ", "F", "o", "r", "d", " ", "c", "o", "i", "l", "s", " ", "f", "a", "i", "l", ".", " ", " ", "M", "e", "r", "c", "e", "d", "e", "s", " ", "a", "n", "d", " ", "F", "o", "r", "d", " ", "s", "h", "a", "r", "e", " ", "i", "t", "!", " ", "M", "a", "z", "d", "a", " ", "d", "i", "f", "f", "e", "r", "s", "?", " ", "V", "W", " ", "t", "o", "o">>,
     severity |-> <<"h", "i", "g", "h", "_", "r", "i", "s", "k">>,
     symptoms |-> << <<"R", "o", "u", "g", "h", " ", "i", "d", "l", "e">>, <<"F", "o", "r", "d", " ", "j", "u", "d", "d", "e", "r">> >>,
     causes |-> << <<"B", "M", "W", " ", "c", "o", "i", "l">>, <<"M", "a", "z", "d", "a", " ", "p", "l", "u", "g">>, <<"F", "o", "r", "d", " ", "o", "r", " ", "B", "M", "W", " ", "l", "e", "a", "d">> >>,
     fixes |-> << <<"O", "p", "e", "l", " ", "p", "a", "r", "t">>, <<"S", "w", "a", "p", " ", "c", "o", "i", "l">> >>]

EntryLoom ==
    [title |-> <<>>,
     description |-> <<"O", "p", "e", "l", " ", "a", "n", "d", " ", "V", "a", "u", "x", "h", "a", "l", "l", ".", "\n", "V", "o", "l", "k", "s", "w", "a", "g", "e", "n", " ", "o", "n", "l", "y", ".", " ">>,
     severity |-> <<>>,
     symptoms |-> <<>>,
     causes |-> << <<"L", "a", "n", "d", "r", "o", "v", "e", "r", " ", "l", "o", "o", "m">>, <<"V", "o", "l", "k", "s", "w", "a", "g", "e", "n", " ", "e", "c", "u">>, <<"K", "i", "a", "'", "s", " ", "r", "e", "l", "a", "y">> >>,
     fixes |-> << <<"V", "a", "u", "x", "h", "a", "l", "l", " ", "f", "i", "x">> >>]

EntryBare ==
    [title |-> <<"L", "o", "s", "t", " ", "c", "o", "m", "m", "s">>, description |-> <<>>, severity |-> <<"l", "o", "w">>,
     symptoms |-> << <<"M", "e", "r", "c", "e", "d", "e", "s", " ", "'", "l", "i", "m", "p", "'", " ", "m", "o", "d", "e">> >>, causes |-> <<>>, fixes |-> <<>>]

\* What the JSON libraries merge to: nothing found, or code -> entry
ObdLibraries ==
    { <<>>,
      (<<"P", "0", "3", "0", "1">> :> EntryMisfire),
      (<<"P", "0", "3", "0", "1">> :> EntryLoom) @@ (<<"B", "1", "3", "4", "2">> :> EntryBare) }

NoTurn == [msg |-> None, make |-> None, detected |-> {}, blocks |-> <<>>]

\* obd_codes.json of expert_tools: missing, unreadable, or a dict whose
\* values are dicts with some of the fields, or null (kept as the empty dict)
DecodeDb ==
    (<<"P", "0", "3", "0", "1">> :> [title |-> <<"C", "y", "l", "i", "n", "d", "e", "r", " ", "1", " ", "m", "i", "s", "f", "i", "r", "e">>, desc |-> <<"M", "i", "s", "f", "i", "r", "e", ".">>,
                  common_causes |-> << <<"c", "o", "i", "l">> >>, severity |-> <<"h", "i", "g", "h">>])
    @@ (<<"P", "0", "3", "x", "x">> :> [desc |-> <<"I", "g", "n", "i", "t", "i", "o", "n", " ", "f", "a", "m", "i", "l", "y", ".">>, tests |-> << <<"s", "w", "a", "p", " ", "c", "o", "i", "l", "s">> >>])
    @@ (<<"B", "1", "2", "x", "x">> :> [title |-> <<"B", "o", "d", "y", " ", "f", "a", "m", "i", "l", "y">>])
    @@ (<<"P", "0", "x", "x">> :> [title |-> <<"T", "w", "o", "-", "c", "h", "a", "r", "a", "c", "t", "e", "r", " ", "k", "e", "y">>])
    @@ (<<"B", "1", "2", "0", "0">> :> <<>>)

ObdJsonFiles ==
    { [exists |-> FALSE, parses |-> FALSE, data |-> <<>>],
      [exists |-> TRUE, parses |-> FALSE, data |-> <<>>],
      [exists |-> TRUE, parses |-> TRUE, data |-> DecodeDb] }

PCodes ==
    { None, <<>>, <<" ", "\n">>, <<"p", "0", "3", "0", "1">>, <<" ", "P", "0", "3", " ", "0", "1", " ">>, <<"P", "0", "3", "0", "2">>, <<"b", "1", "2", "0", "0">>, <<"B", "1", "2", "3", "4">>,
      <<"U", "0", "1", "0", "0">>, <<"c", "0">>, <<"X", "1">>, <<"P", "0">> }

DecodeVehicles == { << <<>>, <<>> >>, << <<"F", "o", "r", "d">>, <<"F", "o", "c", "u", "s">> >>, << <<>>, <<"G", "o", "l", "f">> >> }

NoDecode == [called |-> FALSE, pcode |-> None, make |-> <<>>, model |-> <<>>, out |-> <<>>]

(***************************************************************************)
(* The chat turn's code cards (obdly_app.py 1777-1831) and decode_code     *)
(* calls (expert_tools.py).                                                *)
(***************************************************************************)
not_cards == <<match_vars, corpus, INDEX_BUILT, index_vars, build_runs, last_call,
               pc, th, tool_vars>>

\* Lines 410-412: ss.obd_codes after ensure_obd_loaded()
obd_loaded(codes, library) == IF codes = <<>> THEN library ELSE codes

\* Line 1455
ensure_obd_loaded ==
    /\ code_pc = "start"
    /\ obd_codes' = obd_loaded(obd_codes, obd_library)
    /\ code_pc' = "idle"
    /\ UNCHANGED <<obd_library, code_turn, decode_vars, norm_call, not_cards>>

\* A user message arrives; lines 1783-1789 infer the make
code_chat_input ==
    /\ code_pc = "idle"
    /\ \E m \in CodeMessages, k \in InferredMakes :
          code_turn' = [NoTurn EXCEPT !.msg = m, !.make = k]
    /\ code_pc' = "pending"
    /\ UNCHANGED <<obd_library, obd_codes, decode_vars, norm_call, not_cards>>

\* Lines 1811-1827: the block of one detected code
code_block(c, codes, inf_make) ==
    IF c \in DOMAIN codes
    THEN render_code_card(c, codes[c], inf_make)
    ELSE no_local_details(c)

\* Lines 1778-1779 and 1806-1831
code_cards ==
    /\ code_pc = "pending"
    /\ \E codes \in {obd_loaded(obd_codes, obd_library)},
          detected \in {find_obd_codes_in_text(code_turn.msg)} :
          /\ obd_codes' = codes
          /\ code_turn' = [code_turn EXCEPT
                             !.detected = detected,
                             !.blocks = Table([c \in detected |->
                                                  code_block(c, codes, code_turn.make)])]
    /\ code_pc' = "done"
    /\ UNCHANGED <<obd_library, decode_vars, norm_call, not_cards>>

code_end_turn ==
    /\ code_pc = "done"
    /\ code_turn' = NoTurn
    /\ code_pc' = "idle"
    /\ UNCHANGED <<obd_library, obd_codes, decode_vars, norm_call, not_cards>>

\* decode_code(pcode, make, model), lines 256-310, with the load of line 261
decode_call ==
    /\ code_pc = "idle"
    /\ \E p \in PCodes, v \in DecodeVehicles :
          \E cache \in {IF clean_code(p) = <<>> THEN OBD_CODES_CACHE
                        ELSE load_obd_codes(OBD_CODES_CACHE, obd_json)} :
             /\ OBD_CODES_CACHE' = cache
             /\ decode_last' = [called |-> TRUE, pcode |-> p, make |-> v[1],
                                model |-> v[2],
                                out |-> decode_code(p, v[1], v[2], cache.db)]
    /\ code_pc' = "decoded"
    /\ UNCHANGED <<obd_json, obd_library, obd_codes, code_turn, norm_call, not_cards>>

\* The caller has the result
decode_return ==
    /\ code_pc = "decoded"
    /\ decode_last' = NoDecode
    /\ code_pc' = "idle"
    /\ UNCHANGED <<obd_json, OBD_CODES_CACHE, obd_library, obd_codes, code_turn,
                   norm_call, not_cards>>

(***************************************************************************)
(* _normalise_text on a text written once with an alias and once with the  *)
(* canonical name.                                                         *)
(***************************************************************************)
\* How a name is typed: lower case, upper case, capitalised
Typed(name, style) ==
    CASE style = "lower" -> name
      [] style = "upper" -> Upper(name)
      [] style = "title" -> <<UpperChar(name[1])>> \o Tail(name)

Styles == {"lower", "upper", "title"}

FollowingTexts ==
    { <<>>, <<" ", "G", "o", "l", "f">>, <<" ", "g", "o", "l", "f", " ", "g", "t", "i">>, <<" ", "C", "-", "C", "l", "a", "s", "s">>, <<" ", "V", "i", "t", "o", "/", "S", "p", "r", "i", "n", "t", "e", "r">>, <<" ", "D", "i", "s", "c", "o", "v", "e", "r", "y", ",", " ", "2", "0", "1", "5">>,
      <<"-", "B", "e", "n", "z">>, <<" ", "h", "a", "s", " ", "a", " ", "l", "e", "a", "k">>, <<"'", "s", " ", "m", "b", " ", "p", "a", "r", "t">> }

NoNormCall ==
    [phase |-> "idle", alias |-> 0, style |-> "lower", rest |-> <<>>,
     with_alias |-> <<>>, with_canonical |-> <<>>]

write_twice ==
    /\ norm_call.phase = "idle"
    /\ \E k \in 1..Len(aliases), st \in Styles, rest \in FollowingTexts :
          norm_call' = [NoNormCall EXCEPT !.phase = "pending", !.alias = k,
                                         !.style = st, !.rest = rest]
    /\ UNCHANGED <<code_vars, decode_vars, not_cards>>

\* Lines 270-281, on both texts
normalise_both ==
    /\ norm_call.phase = "pending"
    /\ norm_call' =
          [norm_call EXCEPT
             !.phase = "done",
             !.with_alias =
                 normalise_text(Typed(aliases[norm_call.alias][1], norm_call.style)
                                \o norm_call.rest),
             !.with_canonical =
                 normalise_text(Typed(aliases[norm_call.alias][2], norm_call.style)
                                \o norm_call.rest)]
    /\ UNCHANGED <<code_vars, decode_vars, not_cards>>

next_text ==
    /\ norm_call.phase = "done"
    /\ norm_call' = NoNormCall
    /\ UNCHANGED <<code_vars, decode_vars, not_cards>>

(***************************************************************************)
(* The "next test" stepper of expert_tools.py.  A question is the record   *)
(* of the flow it comes from and its place there; a plan state is a dict,  *)
(* None being the empty one (plan_state or {}).                            *)
(***************************************************************************)
FlowNames ==
    {"starting", "braking", "fluids", "electrical", "drivetrain", "hvac", "generic"}

\* _DEFAULT_FLOWS: four questions in every flow
DEFAULT_FLOWS == [c \in FlowNames |-> [n \in 1..4 |-> [flow |-> c, n |-> n]]]

\* The question returned when the flow is over (lines 520-522)
Completed == [flow |-> "completed", n |-> 0]

NoSeedTests == <<[flow |-> "None", n |-> 0]>>

\* seed_tests: None, or a list of up to MaxSeedTests tests
SeedTests ==
    {NoSeedTests} \cup {[n \in 1..len |-> [flow |-> "seed", n |-> n]] : len \in 0..MaxSeedTests}

\* category_hint: None or '' (both ""), a flow, or a name that is no flow
CategoryHints == {"", "starting", "hvac", "suspension"}

\* _build_flow(category, seed_tests)
build_flow(category, seed_tests) ==
    LET base == IF seed_tests # NoSeedTests /\ seed_tests # <<>> THEN seed_tests
                ELSE IF category \in FlowNames THEN DEFAULT_FLOWS[category]
                ELSE DEFAULT_FLOWS["generic"]
    IN  SubSeq(base, 1, Min2(4, Len(base)))

\* next_action(plan_state, category_hint=..., seed_tests=...)
next_action(plan_state, category_hint, seed_tests) ==
    LET state == plan_state
        held == DictGet(state, "category", "")
        category == IF held # "" THEN held
                    ELSE IF category_hint # "" THEN category_hint ELSE "generic"
        fresh == "steps" \notin DOMAIN state \/ state["steps"] = <<>>
        steps == IF fresh THEN build_flow(category, seed_tests) ELSE state["steps"]
        answers == IF fresh THEN [n \in 1..Len(steps) |-> "None"] ELSE state["answers"]
        i == IF fresh THEN 0 ELSE DictGet(state, "i", 0)
        new_state == [category |-> category, steps |-> steps, answers |-> answers, i |-> i]
    IN  IF i >= Len(steps) THEN [question |-> Completed, state |-> new_state]
        ELSE [question |-> steps[i + 1], state |-> new_state]

\* apply_step_answer that stores the answer and stays at the question
apply_step_answer_stays(plan_state, answer_yes) ==
    [plan_state EXCEPT !["answers"] =
        IF plan_state["i"] < Len(plan_state["steps"])
        THEN [plan_state["answers"] EXCEPT ![plan_state["i"] + 1] = answer_yes]
        ELSE plan_state["answers"]]

\* apply_step_answer(plan_state, answer_yes); answers[i] = ... raises
\* IndexError when answers is shorter than steps, modelled as no state
apply_step_answer(plan_state, answer_yes) ==
    IF DOMAIN plan_state = {} THEN [i |-> 0, steps |-> <<>>, answers |-> <<>>]
    ELSE LET i == DictGet(plan_state, "i", 0)
             steps == DictGet(plan_state, "steps", <<>>)
             answers == DictGet(plan_state, "answers", <<>>)
             stored == IF 0 <= i /\ i < Len(steps)
                       THEN [answers EXCEPT ![i + 1] = answer_yes]
                       ELSE answers
         IN  [w \in DOMAIN plan_state \cup {"answers", "i"} |->
                 IF w = "answers" THEN stored
                 ELSE IF w = "i" THEN i + 1
                 ELSE plan_state[w]]

\* The caller: no plan yet
NoPlan ==
    [phase |-> "idle", state |-> <<>>, question |-> Completed, first_steps |-> <<>>,
     asked |-> <<>>, given |-> <<>>]

not_plan ==
    <<match_vars, corpus, INDEX_BUILT, index_vars, build_runs, last_call, pc, th,
      card_vars, chunker, review, ai_session, db_append, reg_turn>>

\* q, stt = next_action(None, category_hint=..., seed_tests=...)
start_plan ==
    /\ plan.phase = "idle"
    /\ \E hint \in CategoryHints, seed \in SeedTests :
          \E r \in {next_action(<<>>, hint, seed)} :
             plan' = [phase |-> "asked", state |-> r.state, question |-> r.question,
                      first_steps |-> r.state.steps,
                      asked |-> <<[q |-> r.question, after |-> 0]>>, given |-> <<>>]
    /\ UNCHANGED not_plan

\* q, stt = next_action(stt), after an answer or once more without one
ask_next ==
    /\ plan.phase \in {"asked", "answered"}
    /\ Cardinality({k \in 1..Len(plan.asked) : plan.asked[k].after = Len(plan.given)})
          < MaxRepeats
    /\ \E hint \in {"", "hvac"}, seed \in {NoSeedTests, <<[flow |-> "seed", n |-> 1]>>} :
          \E r \in {next_action(plan.state, hint, seed)} :
             plan' = [plan EXCEPT !.phase = "asked", !.state = r.state,
                                  !.question = r.question,
                                  !.asked = Append(plan.asked,
                                                   [q |-> r.question,
                                                    after |-> Len(plan.given)])]
    /\ UNCHANGED not_plan

\* stt = apply_step_answer(stt, answer_yes), the answer to the question asked
answer_step ==
    /\ plan.phase = "asked"
    /\ Len(plan.given) < Len(plan.first_steps) + MaxExtraAnswers
    /\ \E yes \in {"True", "False"} :
          plan' = [plan EXCEPT !.phase = "answered",
                               !.state = apply_step_answer(plan.state, yes),
                               !.given = Append(plan.given, yes)]
    /\ UNCHANGED not_plan

(***************************************************************************)
(* _split_into_chunks called with a window of a few tokens.                *)
(***************************************************************************)
ChunkVocab == { <<"O", "i", "l">>, <<"l", "e", "a", "k", "!">>, <<"P", "0", "3", "0", "1", "-", "b">>, <<"?", "!">>, <<"x">> , <<"I", "d", "l", "e", "/", "r", "o", "u", "g", "h">> }

\* Texts of up to MaxChunkWords words; a blank or a line break between them
ChunkerTexts ==
    {None}
    \cup {Join(ws) : ws \in DistinctSeqs(ChunkVocab, MaxChunkWords)}
    \cup {JoinWith(ws, <<"\n", " ", " ">>) : ws \in DistinctSeqs(ChunkVocab, 2)}

NoChunkCall == [phase |-> "idle", text |-> <<>>, max_tokens |-> 1, out |-> <<>>]

not_chunker ==
    <<match_vars, corpus, INDEX_BUILT, index_vars, build_runs, last_call, pc, th,
      card_vars, plan, review, ai_session, db_append, reg_turn>>

\* A caller passes a text and a window size of at least 1
chunk_call ==
    /\ chunker.phase = "idle"
    /\ \E text \in ChunkerTexts, n \in 1..MaxChunkTokens :
          chunker' = [NoChunkCall EXCEPT !.phase = "pending", !.text = text,
                                         !.max_tokens = n]
    /\ UNCHANGED not_chunker

\* _split_into_chunks(text, max_tokens=n), lines 60-70
chunk_return ==
    /\ chunker.phase = "pending"
    /\ chunker' = [chunker EXCEPT !.phase = "done",
                                  !.out = split_into_chunks(chunker.text, chunker.max_tokens)]
    /\ UNCHANGED not_chunker

chunk_next ==
    /\ chunker.phase = "done"
    /\ chunker' = NoChunkCall
    /\ UNCHANGED not_chunker

(***************************************************************************)
(* ask_ai and the daily counter of a session (obdly_app.py).  Streamlit    *)
(* runs the script from the top on every interaction: the day check of     *)
(* lines 126-128 comes first, ask_ai is called when the user sent a        *)
(* message.  A day is its number, counted from the session's first.        *)
(***************************************************************************)
\* Line 1037: the number api_calls_today is compared with
DailyLimit == 100

\* Lines 107-108 on the session's first run; served is the number of model
\* calls that succeeded today, last what ask_ai returned
NewSession ==
    [phase |-> "idle", today |-> 0, api_calls_today |-> 0, api_counter_day |-> 0,
     served |-> 0, last |-> "none"]

not_ai ==
    <<match_vars, corpus, INDEX_BUILT, index_vars, build_runs, last_call, pc, th,
      card_vars, plan, chunker, review, db_append, reg_turn>>

\* Lines 126-128
day_check(s) ==
    IF s.api_counter_day # s.today
    THEN [s EXCEPT !.api_counter_day = s.today, !.api_calls_today = 0]
    ELSE s

\* ask_ai(user_text, csv_context, codes_context), lines 1036-1068; the model
\* call answers or raises
ask_ai(s, model_answers) ==
    IF s.api_calls_today > DailyLimit THEN [s EXCEPT !.last = "limit reached"]
    ELSE IF model_answers
         THEN [s EXCEPT !.api_calls_today = s.api_calls_today + 1,
                        !.served = s.served + 1, !.last = "answer"]
    ELSE [s EXCEPT !.last = "error"]

\* A script run without a user message
script_rerun ==
    /\ ai_session' = [day_check(ai_session) EXCEPT !.last = "none"]
    /\ ai_session' # ai_session
    /\ UNCHANGED not_ai

\* A script run with a user message that reaches ask_ai (line 1869)
ai_turn ==
    /\ \E model_answers \in BOOLEAN :
          ai_session' = ask_ai(day_check(ai_session), model_answers)
    /\ UNCHANGED not_ai

\* Midnight passes while the session is open
day_passes ==
    /\ ai_session.today < MaxDays
    /\ ai_session' = [ai_session EXCEPT !.today = ai_session.today + 1, !.served = 0]
    /\ UNCHANGED not_ai

(***************************************************************************)
(* detect_registration_request and the chat turn that uses it              *)
(* (src/obdly_app.py 233-257, 1701-1775)                                   *)
(***************************************************************************)

\* Line 237: reg_keywords
reg_keywords ==
    {<<"c", "h", "e", "c", "k">>, <<"l", "o", "o", "k", "u", "p">>, <<"l", "o", "o", "k", " ", "u", "p">>, <<"f", "i", "n", "d">>, <<"s", "e", "a", "r", "c", "h">>, <<"w", "h", "a", "t", " ", "c", "a", "r">>,
     <<"w", "h", "a", "t", " ", "v", "e", "h", "i", "c", "l", "e">>, <<"t", "e", "l", "l", " ", "m", "e", " ", "a", "b", "o", "u", "t">>, <<"r", "e", "g">>, <<"r", "e", "g", "i", "s", "t", "r", "a", "t", "i", "o", "n">>,
     <<"n", "u", "m", "b", "e", "r", " ", "p", "l", "a", "t", "e">>, <<"v", "r", "m">>}

\* Line 241: any(keyword in text_lower for keyword in reg_keywords)
has_keyword(text) == \E keyword \in reg_keywords : Contains(keyword, Lower(text))

\* Lines 245-249: the three plate patterns, each a sequence of
\* [class, fewest, most] parts between two \b
LetterPart(lo, hi) == [cls |-> UpperAZ, lo |-> lo, hi |-> hi]
DigitPart(lo, hi) == [cls |-> DigitChars, lo |-> lo, hi |-> hi]
SpacePart(lo, hi) == [cls |-> {" "}, lo |-> lo, hi |-> hi]

reg_patterns ==
    << <<LetterPart(1, 2), DigitPart(1, 2), SpacePart(0, 1), LetterPart(3, 3)>>,
       <<LetterPart(3, 3), DigitPart(1, 3), LetterPart(1, 1)>>,
       <<LetterPart(1, 1), DigitPart(1, 3), LetterPart(3, 3)>> >>

\* s[i .. i+n-1] lies in the class
RunOf(s, i, n, cls) ==
    /\ i + n - 1 <= Len(s)
    /\ \A j \in i..(i + n - 1) : s[j] \in cls

\* One past the end of the match of parts k.. at s[i] that the greedy,
\* backtracking engine finds first, 0 when there is none
RECURSIVE match_parts(_, _, _, _)
match_parts(parts, k, s, i) ==
    IF k > Len(parts) THEN (IF word_boundary(s, i) THEN i ELSE 0)
    ELSE LET p == parts[k]
             fits == {n \in p.lo..p.hi :
                        RunOf(s, i, n, p.cls) /\ match_parts(parts, k + 1, s, i + n) # 0}
         IN  IF fits = {} THEN 0
             ELSE match_parts(parts, k + 1, s,
                              i + (CHOOSE n \in fits : \A m \in fits : m <= n))

\* Line 252: re.search(pattern, text_upper), group(1) or None
re_search(parts, s) ==
    LET starts == {i \in 1..Len(s) : word_boundary(s, i) /\ match_parts(parts, 1, s, i) # 0}
    IN  IF starts = {} THEN None
        ELSE LET i == CHOOSE a \in starts : \A b \in starts : a <= b
             IN  SubSeq(s, i, match_parts(parts, 1, s, i) - 1)

\* Line 254: .replace(' ', '')
without_spaces(s) == SelectSeq(s, LAMBDA c : c # " ")

\* Lines 251-256: the loop over the patterns, from pattern k on
RECURSIVE reg_from(_, _)
reg_from(k, text_upper) ==
    IF k > Len(reg_patterns) THEN None
    ELSE \* line 252
         LET m == re_search(reg_patterns[k], text_upper)
         IN  IF m = None THEN reg_from(k + 1, text_upper)
             ELSE LET potential_reg == without_spaces(m)
                  IN  IF 4 <= Len(potential_reg) /\ Len(potential_reg) <= 8
                      THEN potential_reg
                      ELSE reg_from(k + 1, text_upper)

\* Lines 233-257: has_keyword is computed on line 241 and read nowhere
detect_registration_request(text) ==
    LET reg == reg_from(1, Upper(text))
    IN  IF reg = None THEN [is_reg |-> FALSE, reg |-> None]
        ELSE [is_reg |-> TRUE, reg |-> reg]

\* The words of the chat messages
RegVocab ==
    {<<"c", "h", "e", "c", "k">>, <<"m", "y">>, <<"A", "B", "1", "2">>, <<"C", "D", "E">>, <<"a", "b", "1", "2", "c", "d", "e">>, <<"a", "4">>, <<"h", "a", "s">>, <<"P", "0", "3", "0", "1">>,
     <<"r", "e", "g">>}

RegMessages == {Join(ws) : ws \in UNION {[1..n -> RegVocab] : n \in 1..MaxRegWords}}

\* No message is being processed
NoRegTurn ==
    [phase |-> "idle", text |-> <<>>, is_reg_query |-> FALSE,
     detected_reg |-> None, handled_by |-> "none", turns |-> 0]

not_reg ==
    <<match_vars, corpus, INDEX_BUILT, index_vars, build_runs, last_call, pc, th,
      card_vars, plan, chunker, review, ai_session, db_append>>

\* Lines 1688-1699: the chat input is stored and the script reruns
reg_chat_input ==
    /\ reg_turn.phase = "idle"
    /\ \E user_input \in RegMessages :
           reg_turn' = [phase |-> "processing", text |-> user_input,
                        is_reg_query |-> FALSE, detected_reg |-> None,
                        handled_by |-> "none", turns |-> reg_turn.turns]
    /\ UNCHANGED not_reg

\* Lines 1702-1775: the message goes to the vehicle lookup, found or not,
\* and the run ends there, or it goes on to the diagnosis
reg_process ==
    /\ reg_turn.phase = "processing"
    /\ \E found \in BOOLEAN :
         LET d == detect_registration_request(reg_turn.text)
         IN  reg_turn' =
               [reg_turn EXCEPT
                  !.phase = "answered",
                  !.is_reg_query = d.is_reg,
                  !.detected_reg = d.reg,
                  !.handled_by =
                      IF d.is_reg /\ d.reg # None /\ d.reg # <<>>
                      THEN (IF found THEN "vehicle_details" ELSE "vehicle_not_found")
                      ELSE "diagnosis"]
    /\ UNCHANGED not_reg

\* The next message can be typed
reg_next_turn ==
    /\ reg_turn.phase = "answered"
    /\ reg_turn.turns < MaxRegTurns
    /\ reg_turn' = [NoRegTurn EXCEPT !.turns = reg_turn.turns + 1]
    /\ UNCHANGED not_reg

(***************************************************************************)
(* The submission review (src/obdlyaitest/user_submission_page.py 171-302) *)
(* pending_submissions.csv is review.submissions, obdly_fault_data.csv the *)
(* rows review.fault_data that approvals appended                          *)
(***************************************************************************)

Costs == {"Unknown", "120"}

\* No file yet, nothing reviewed
NoReview ==
    [phase |-> "open", submissions |-> <<>>, fault_data |-> <<>>,
     last |-> [op |-> "none", idx |-> 0, shown |-> 0, before |-> <<>>]]

not_review ==
    <<match_vars, corpus, INDEX_BUILT, index_vars, build_runs, last_call, pc, th,
      card_vars, plan, chunker, ai_session, db_append, reg_turn>>

\* Line 213: pending = [s for s in submissions if s.get("status") == "pending"]
pending_of(submissions) == SelectSeq(submissions, LAMBDA s : s.status = "pending")

\* Lines 286-300: the row at position idx of the FILE gets the status
\* (idx counts from 0 in the code, from 1 here)
update_submission_status(submissions, idx, new_status) ==
    [submissions EXCEPT ![idx].status = new_status]

\* Lines 258-272: the row written to obdly_fault_data.csv
fault_row(submission) ==
    [of |-> submission.timestamp,
     cost |-> IF submission.cost # "Unknown" THEN "£" \o submission.cost
              ELSE "Unknown"]

\* Lines 171-192, called with status "pending" on lines 140-155
save_submission ==
    /\ review.phase = "open"
    /\ Len(review.submissions) < MaxSubmissions
    /\ \E cost \in Costs :
         review' =
           [review EXCEPT
              !.submissions =
                  Append(@, [timestamp |-> Len(review.submissions) + 1,
                             cost |-> cost, status |-> "pending"]),
              !.last = [op |-> "save", idx |-> 0, shown |-> 0,
                        before |-> review.submissions]]
    /\ UNCHANGED not_review

\* Lines 203-242 and 255-277: the Approve button of the idx-th pending entry
approve_click ==
    /\ review.phase = "open"
    /\ Len(review.fault_data) < MaxDbRows
    /\ \E idx \in 1..Len(pending_of(review.submissions)) :
         LET sub == pending_of(review.submissions)[idx]
         IN  review' =
               [review EXCEPT
                  !.fault_data = Append(@, fault_row(sub)),
                  !.submissions = update_submission_status(@, idx, "approved"),
                  !.last = [op |-> "approved", idx |-> idx,
                            shown |-> sub.timestamp,
                            before |-> review.submissions]]
    /\ UNCHANGED not_review

\* Lines 203-246 and 280-283: the Reject button of the idx-th pending entry
reject_click ==
    /\ review.phase = "open"
    /\ \E idx \in 1..Len(pending_of(review.submissions)) :
         LET sub == pending_of(review.submissions)[idx]
         IN  review' =
               [review EXCEPT
                  !.submissions = update_submission_status(@, idx, "rejected"),
                  !.last = [op |-> "rejected", idx |-> idx,
                            shown |-> sub.timestamp,
                            before |-> review.submissions]]
    /\ UNCHANGED not_review

(***************************************************************************)
(* append_candidates_to_db (src/reddit_data_collector.py 260-370): the     *)
(* database file is its header and its rows, a row a function from the     *)
(* header's columns to cells; the columns that no key reads are left out   *)
(***************************************************************************)

\* Lines 260-264, the columns the keys and _map_row_to_db use
DB_DEFAULT_HEADERS == <<"Make", "Model", "Year", "Fault", "Permalink">>

\* "src/obdlyaitest 2/database_manager.py" 331-334: no Permalink column
ManagerHeaders == <<"Make", "Model", "Year", "Fault">>

\* os.path.exists(db_path) is false
MissingDb == [exists |-> FALSE, headers |-> <<>>, rows |-> <<>>]

\* create_empty_database, lines 329-338
create_empty_database == [exists |-> TRUE, headers |-> ManagerHeaders, rows |-> <<>>]

\* str.title() on the characters of the model: a letter is upper case
\* behind a character that is no letter, lower case behind a letter
IsLetter(c) == c \in UpperAZ \/ (c \in Chars /\ OrdOf[c] >= 45)

title(s) ==
    [i \in 1..Len(s) |->
        IF i = 1 \/ ~IsLetter(s[i - 1]) THEN UpperChar(s[i]) ELSE LowerChar[s[i]]]

\* Lines 267-275
read_db_headers(db) ==
    IF ~db.exists THEN DB_DEFAULT_HEADERS
    ELSE IF db.headers = <<>> THEN DB_DEFAULT_HEADERS
    ELSE db.headers

\* A key of lines 292-299 and 359-363
PermalinkKey(p) == [kind |-> "permalink", of |-> <<p>>]
ComboKey(make, model, year, fault) == [kind |-> "combo", of |-> <<make, model, year, fault>>]

\* Lines 290-299, for one row read by csv.DictReader
existing_key(row) ==
    LET p == Strip(IF DictGet(row, "Permalink", <<>>) # <<>>
                   THEN row["Permalink"] ELSE DictGet(row, "URL", <<>>))
    IN  IF p # <<>> THEN PermalinkKey(p)
        ELSE ComboKey(Lower(DictGet(row, "Make", <<>>)),
                      Lower(DictGet(row, "Model", <<>>)),
                      DictGet(row, "Year", <<>>),
                      Lower(DictGet(row, "Fault", <<>>)))

\* Lines 278-302
load_existing_keys(db) ==
    IF ~db.exists THEN {} ELSE {existing_key(db.rows[i]) : i \in 1..Len(db.rows)}

\* Lines 305-331
map_row_to_db(r) ==
    LET comp == r.component
        sym == r.symptom
    IN  [Make |-> title(r.make),
         Model |-> title(r.model),
         Year |-> r.year,
         Fault |-> IF comp # <<>> /\ sym # <<>> THEN comp \o <<":", " ">> \o sym
                   ELSE IF comp # <<>> THEN comp
                   ELSE IF sym # <<>> THEN sym
                   ELSE <<"c", "o", "m", "m", "u", "n", "i", "t", "y", "-", "r", "e", "p", "o", "r", "t", "e", "d", " ", "i", "s", "s", "u", "e">>,
         Permalink |-> IF r.permalink # <<>> THEN r.permalink ELSE r.url]

\* Lines 356-363
candidate_key(mapped) ==
    LET permalink == Strip(mapped.Permalink)
    IN  IF permalink # <<>> THEN PermalinkKey(permalink)
        ELSE ComboKey(Lower(mapped.Make), Lower(mapped.Model), mapped.Year,
                      Lower(mapped.Fault))

\* Lines 345-346
trim_to_headers(d, headers) ==
    [h \in Range(headers) |-> DictGet(d, h, <<>>)]

\* Lines 354-369: the loop from candidate i on; acc is the rows written so
\* far, the keys seen and the two counts
RECURSIVE append_loop(_, _, _, _)
append_loop(candidates, i, headers, acc) ==
    IF i > Len(candidates) THEN acc
    ELSE LET mapped == map_row_to_db(candidates[i])
             key == candidate_key(mapped)
         IN  IF key \in acc.existing_keys
             THEN append_loop(candidates, i + 1, headers,
                              [acc EXCEPT !.skipped = @ + 1])
             ELSE append_loop(candidates, i + 1, headers,
                              [rows |-> Append(acc.rows, trim_to_headers(mapped, headers)),
                               existing_keys |-> acc.existing_keys \cup {key},
                               appended |-> acc.appended + 1,
                               skipped |-> acc.skipped])

\* Lines 334-370: the file afterwards and the returned counts. Mode "w"
\* (no file, or an empty one) writes the header first
append_candidates_to_db(candidates, db) ==
    LET headers == read_db_headers(db)
        done == append_loop(candidates, 1, headers,
                            [rows |-> IF db.exists THEN db.rows ELSE <<>>,
                             existing_keys |-> load_existing_keys(db),
                             appended |-> 0, skipped |-> 0])
    IN  [db |-> [exists |-> TRUE, headers |-> headers, rows |-> done.rows],
         appended |-> done.appended,
         skipped |-> done.skipped]

\* The candidates of the collector's page
Candidates ==
    {[make |-> mk, model |-> <<"f", "o", "c", "u", "s">>, year |-> <<"2", "0", "1", "5">>, component |-> comp,
      symptom |-> <<>>, permalink |-> p, url |-> <<>>] :
        mk \in {<<"f", "o", "r", "d">>, <<"B", "M", "W">>}, comp \in {<<>>, <<"t", "u", "r", "b", "o">>},
        p \in {<<>>, <<"r", "/", "1">>, <<"r", "/", "2">>}}

CandidateLists == UNION {[1..n -> Candidates] : n \in 0..MaxCandidates}

\* Nothing appended yet
NoAppend(db) ==
    [phase |-> "ready", db |-> db, calls |-> 0,
     last |-> [candidates |-> <<>>, before |-> db, appended |-> 0, skipped |-> 0]]

not_db ==
    <<match_vars, corpus, INDEX_BUILT, index_vars, build_runs, last_call, pc, th,
      card_vars, plan, chunker, review, ai_session, reg_turn>>

\* Lines 512-515: the append button of the collector's page
append_click ==
    /\ db_append.phase = "ready"
    /\ db_append.calls < MaxAppendCalls
    /\ \E candidates \in CandidateLists :
         LET out == append_candidates_to_db(candidates, db_append.db)
         IN  db_append' =
               [phase |-> "ready", db |-> out.db, calls |-> db_append.calls + 1,
                last |-> [candidates |-> candidates, before |-> db_append.db,
                          appended |-> out.appended, skipped |-> out.skipped]]
    /\ UNCHANGED not_db

\* The same button pressed again with the same candidates
append_again ==
    /\ db_append.phase = "ready"
    /\ db_append.calls >= 1
    /\ db_append.calls <= MaxAppendCalls
    /\ LET out == append_candidates_to_db(db_append.last.candidates, db_append.db)
       IN  db_append' =
             [phase |-> "repeated", db |-> out.db, calls |-> db_append.calls,
              last |-> [candidates |-> db_append.last.candidates,
                        before |-> db_append.db,
                        appended |-> out.appended, skipped |-> out.skipped]]
    /\ UNCHANGED not_db

(***************************************************************************)
(* Specifications: the matcher, the single-threaded retriever, and the     *)
(* retriever shared by two threads.                                        *)
(***************************************************************************)
MatchIdle ==
    /\ have_rapidfuzz = FALSE /\ fault_csv = <<>> /\ csv_rows = <<>>
    /\ match_pc = "start" /\ match_text = <<>> /\ match_out = NoMatch

NoCorpus ==
    [csv |-> [exists |-> FALSE, rows |-> <<>>, fail_at |-> 0],
     md |-> [exists |-> FALSE, text |-> <<>>, fails |-> FALSE]]

ThreadsIdle == pc = <<>> /\ th = <<>>

CodesIdle ==
    /\ obd_library = <<>> /\ obd_codes = <<>> /\ code_pc = "start"
    /\ code_turn = NoTurn
    /\ obd_json = [exists |-> FALSE, parses |-> FALSE, data |-> <<>>]
    /\ OBD_CODES_CACHE = [loaded |-> FALSE, db |-> <<>>]
    /\ decode_last = NoDecode

\* A subsystem that is not running
Unused == [phase |-> "unused"]

ToolsIdle ==
    /\ plan = Unused /\ chunker = Unused /\ review = Unused
    /\ ai_session = Unused /\ db_append = Unused /\ reg_turn = Unused

CardsIdle == CodesIdle /\ norm_call = NoNormCall /\ ToolsIdle

\* Everything but the subsystems above at rest
BaseIdle ==
    /\ MatchIdle
    /\ corpus = NoCorpus
    /\ InitIndexVars
    /\ last_call = IdleCall
    /\ ThreadsIdle
    /\ CodesIdle /\ norm_call = NoNormCall

InitMatch ==
    /\ have_rapidfuzz \in BOOLEAN
    /\ fault_csv \in Tables
    /\ csv_rows = <<>>
    /\ match_pc = "start"
    /\ match_text = <<>>
    /\ match_out = NoMatch
    /\ corpus = NoCorpus
    /\ InitIndexVars
    /\ last_call = IdleCall
    /\ ThreadsIdle
    /\ CardsIdle

InitIndex ==
    /\ MatchIdle
    /\ corpus \in [csv : CsvSources, md : MdSources]
    /\ InitIndexVars
    /\ last_call = IdleCall
    /\ ThreadsIdle
    /\ CardsIdle

InitThreads ==
    /\ MatchIdle
    /\ corpus \in ThreadCorpora
    /\ InitIndexVars
    /\ last_call = IdleCall
    /\ pc = [t \in Threads |-> "idle"]
    /\ th = [t \in Threads |-> IdleThread]
    /\ CardsIdle

InitCodes ==
    /\ MatchIdle
    /\ corpus = NoCorpus
    /\ InitIndexVars
    /\ last_call = IdleCall
    /\ ThreadsIdle
    /\ obd_library \in ObdLibraries
    /\ obd_codes = <<>>
    /\ code_pc = "start"
    /\ code_turn = NoTurn
    /\ obd_json \in ObdJsonFiles
    /\ OBD_CODES_CACHE = [loaded |-> FALSE, db |-> <<>>]
    /\ decode_last = NoDecode
    /\ norm_call = NoNormCall
    /\ ToolsIdle

InitAlias ==
    /\ MatchIdle
    /\ corpus = NoCorpus
    /\ InitIndexVars
    /\ last_call = IdleCall
    /\ ThreadsIdle
    /\ CodesIdle
    /\ norm_call = NoNormCall
    /\ ToolsIdle

NextMatch ==
    \/ load_fault_data
    \/ chat_input
    \/ csv_match_call
    \/ end_turn

NextIndex ==
    \/ call_retrieve_context
    \/ call_triage_and_rank
    \/ retrieve_context
    \/ triage_and_rank
    \/ return_to_caller

NextThreads ==
    \/ \E t \in Threads : thread_call(t)
    \/ \E t \in Threads : line133(t)
    \/ \E t \in Threads : line135(t)
    \/ \E t \in Threads : line146(t)
    \/ \E t \in Threads : line147(t)
    \/ \E t \in Threads : line150(t)
    \/ \E t \in Threads : line155(t)
    \/ \E t \in Threads : line163(t)
    \/ \E t \in Threads : line167(t)
    \/ \E t \in Threads : line172(t)
    \/ \E t \in Threads : line180(t)
    \/ \E t \in Threads : line222(t)
    \/ \E t \in Threads : line225(t)
    \/ \E t \in Threads : line228(t)
    \/ \E t \in Threads : line233(t)
    \/ \E t \in Threads : thread_return(t)

NextCodes ==
    \/ ensure_obd_loaded
    \/ code_chat_input
    \/ code_cards
    \/ code_end_turn
    \/ decode_call
    \/ decode_return

NextAlias ==
    \/ write_twice
    \/ normalise_both
    \/ next_text

SpecMatch == InitMatch /\ [][NextMatch]_vars

SpecIndex == InitIndex /\ [][NextIndex]_vars

SpecThreads == InitThreads /\ [][NextThreads]_vars

\* The code cards of the chat flow and the decoder
SpecCodes == InitCodes /\ [][NextCodes]_vars

\* _normalise_text on alias and canonical spellings
SpecAlias == InitAlias /\ [][NextAlias]_vars

InitStepper ==
    /\ BaseIdle
    /\ plan = NoPlan
    /\ chunker = Unused /\ review = Unused
    /\ ai_session = Unused /\ db_append = Unused /\ reg_turn = Unused

NextStepper ==
    \/ start_plan
    \/ ask_next
    \/ answer_step

\* The stepper driven by one caller
SpecStepper == InitStepper /\ [][NextStepper]_vars

InitChunks ==
    /\ BaseIdle
    /\ chunker = NoChunkCall
    /\ plan = Unused /\ review = Unused
    /\ ai_session = Unused /\ db_append = Unused /\ reg_turn = Unused

NextChunks ==
    \/ chunk_call
    \/ chunk_return
    \/ chunk_next

\* _split_into_chunks on its own
SpecChunks == InitChunks /\ [][NextChunks]_vars

InitAi ==
    /\ BaseIdle
    /\ ai_session = NewSession
    /\ plan = Unused /\ chunker = Unused /\ review = Unused
    /\ db_append = Unused /\ reg_turn = Unused

NextAi ==
    \/ script_rerun
    \/ ai_turn
    \/ day_passes

\* One session's script runs over the days
SpecAi == InitAi /\ [][NextAi]_vars

InitReg ==
    /\ BaseIdle
    /\ reg_turn = NoRegTurn
    /\ plan = Unused /\ chunker = Unused /\ review = Unused
    /\ ai_session = Unused /\ db_append = Unused

NextReg ==
    \/ reg_chat_input
    \/ reg_process
    \/ reg_next_turn

\* Chat turns through the registration detection
SpecReg == InitReg /\ [][NextReg]_vars

InitReview ==
    /\ BaseIdle
    /\ review = NoReview
    /\ plan = Unused /\ chunker = Unused /\ ai_session = Unused
    /\ db_append = Unused /\ reg_turn = Unused

NextReview ==
    \/ save_submission
    \/ approve_click
    \/ reject_click

\* Submissions coming in and being reviewed
SpecReview == InitReview /\ [][NextReview]_vars

InitDb ==
    /\ BaseIdle
    /\ db_append \in {NoAppend(MissingDb), NoAppend(create_empty_database)}
    /\ plan = Unused /\ chunker = Unused /\ review = Unused
    /\ ai_session = Unused /\ reg_turn = Unused

NextDb ==
    \/ append_click
    \/ append_again

\* Appends to a database that is missing or was created empty
SpecDb == InitDb /\ [][NextDb]_vars

(***************************************************************************)
(* Claims about csv_match.  Each is stated from the text primitives, not   *)
(* from the gates csv_match itself is built of.                            *)
(***************************************************************************)
MatchDone == match_pc = "done"

\* The make test of the specification, for row r and normalised query q
MakeTestOf(r, q) ==
    LET make == normalise_text(r.Make)
    IN  /\ make # <<>>
        /\ \/ Contains(make, q)
           \/ fuzzy_ratio(make, q, have_rapidfuzz) >= 80

FaultTokenSet(r) == Range(Split(normalise_text(r.Fault))) \ stop

SymptomTokenSet(q) == {w \in Range(Split(q)) : Len(w) > 3} \ stop

HasFaultWord(q) == \E w \in fault_words : Contains(w, q)

HasInfoWord(q) == \E w \in info_words : Contains(w, q)

\* The rows of the table that pass the make test and the overlap test
CandidateRows(q) ==
    LET sym == SymptomTokenSet(q)
    IN  {i \in 1..Len(csv_rows) :
            /\ FaultTokenSet(csv_rows[i]) \cap sym # {}
            /\ MakeTestOf(csv_rows[i], q)}

\* C1: the row csv_match returns, and every row it scores, has a non-empty
\* normalised Make that is a substring of the normalised query or has a
\* fuzzy ratio of at least 80 against it.
C1_MakeGate ==
    MatchDone =>
        LET q == normalise_text(match_text)
        IN  /\ match_out.card # 0 => MakeTestOf(csv_rows[match_out.card], q)
            /\ \A k \in 1..Len(match_out.scored) :
                   MakeTestOf(csv_rows[match_out.scored[k].row], q)

\* A match is returned although the table also holds a row of another make
\* whose fault shares two or more words with the query.
C1_Witness ==
    /\ MatchDone
    /\ match_out.card # 0
    /\ LET q == normalise_text(match_text)
       IN  \E i \in 1..Len(csv_rows) :
              /\ ~ MakeTestOf(csv_rows[i], q)
              /\ normalise_text(csv_rows[i].Make) # <<>>
              /\ Cardinality(FaultTokenSet(csv_rows[i]) \cap SymptomTokenSet(q)) >= 2

\* C2: with an empty table, or no fault word in the query, or an
\* informational phrase in it, csv_match scores no row and returns (None, 0).
C2_PreFilters ==
    MatchDone =>
        LET q == normalise_text(match_text)
        IN  (csv_rows = <<>> \/ ~ HasFaultWord(q) \/ HasInfoWord(q))
                => match_out = NoMatch

\* The informational gate stops a query that has a fault word and a row that
\* passes both row gates.
C2_Witness ==
    /\ MatchDone
    /\ match_out = NoMatch
    /\ LET q == normalise_text(match_text)
       IN  HasInfoWord(q) /\ HasFaultWord(q) /\ CandidateRows(q) # {}

\* C3: the fault tokens of the returned row share a word with the query's
\* symptom tokens.
C3_OverlapGate ==
    MatchDone /\ match_out.card # 0
        => FaultTokenSet(csv_rows[match_out.card])
               \cap SymptomTokenSet(normalise_text(match_text)) # {}

\* A row whose make and model are both in the query, and whose fault shares
\* no symptom word with it, is not matched.
C3_Witness ==
    /\ MatchDone
    /\ match_out.card = 0
    /\ LET q == normalise_text(match_text)
       IN  /\ HasFaultWord(q) /\ ~ HasInfoWord(q)
           /\ \E i \in 1..Len(csv_rows) :
                 LET r == csv_rows[i]
                 IN  /\ MakeTestOf(r, q)
                     /\ r.Model # <<>>
                     /\ Contains(normalise_text(r.Model), q)
                     /\ FaultTokenSet(r) \cap SymptomTokenSet(q) = {}

ScoredFinals == {match_out.scored[k].final : k \in 1..Len(match_out.scored)}

BestScored == CHOOSE v \in ScoredFinals : \A u \in ScoredFinals : u <= v

\* C4: a match is returned exactly when some row is a candidate and the best
\* final score is at least 200; otherwise the result is (None, 0).
C4_ConfidenceFloor ==
    MatchDone =>
        LET q == normalise_text(match_text)
            cands == IF csv_rows # <<>> /\ HasFaultWord(q) /\ ~ HasInfoWord(q)
                     THEN CandidateRows(q) ELSE {}
        IN  /\ {match_out.scored[k].row : k \in 1..Len(match_out.scored)} = cands
            /\ match_out.card # 0 <=> (cands # {} /\ BestScored >= 200)
            /\ match_out.card # 0 =>
                   /\ match_out.card \in cands
                   /\ match_out.score = BestScored
            /\ match_out.card = 0 => match_out.score = 0

\* Two rows were candidates with different final scores and the better one
\* was returned.
C4_Witness ==
    /\ MatchDone
    /\ match_out.card # 0
    /\ Cardinality(ScoredFinals) >= 2
    /\ match_out.score = BestScored


(***************************************************************************)
(* Claims about the retriever in a single-threaded process.  Which chunks  *)
(* share a word with the query is stated from the chunk texts, not from    *)
(* the scores.                                                             *)
(***************************************************************************)
Retrieved == last_call.phase = "returned" /\ last_call.op = "retrieve_context"

QueryTokens == Range(tokenize(last_call.query))

\* The chunks that share a token with the query
Sharing(qt) == {i \in 1..Len(CHUNKS) : Range(tokenize(CHUNKS[i].text)) \cap qt # {}}

\* C5: retrieve_context returns no chunk that shares no token with the query,
\* and returns the empty list when no query token is in the vocabulary.
C5_ZeroSimilarityExcluded ==
    Retrieved =>
        With(QueryTokens, LAMBDA qt :
            /\ \A j \in 1..Len(last_call.docs) : last_call.docs[j] \in Sharing(qt)
            /\ qt \cap DOMAIN VOCAB = {} => last_call.docs = <<>>)

\* k left room for more chunks, and the chunks without a query token were
\* left out all the same.
C5_Witness ==
    /\ Retrieved
    /\ last_call.docs # <<>>
    /\ Len(last_call.docs) < last_call.k
    /\ Len(last_call.docs) < Len(CHUNKS)

\* The similarities of all chunks against query q, as the index gives them
SimsOf(q) ==
    With(tfidf_query_vec(OrEmpty(q), IDF), LAMBDA qvec :
    With(l2_squared(qvec), LAMBDA qn2 :
        Table([i \in 1..Len(CHUNKS) |-> cosine(qvec, qn2, TF[i], TFIDF_NORM[i], IDF)])))

\* Chunk a comes before chunk b: more similar, or as similar and earlier
RanksBefore(sim, a, b) ==
    \/ SimLess(sim[b], sim[a])
    \/ ~ SimLess(sim[a], sim[b]) /\ a < b

\* C6: retrieve_context(query, k) returns the first min(max(1, k), survivors)
\* surviving chunks in the order of descending similarity, ties in chunk order.
C6_TopKOrdering ==
    Retrieved =>
        With(SimsOf(last_call.query), LAMBDA sim :
        With(Sharing(QueryTokens), LAMBDA surv :
        With(last_call.docs, LAMBDA docs :
            /\ Len(docs) = Min2(Max2(1, last_call.k), Cardinality(surv))
            /\ Len(docs) <= Max2(1, last_call.k)
            /\ \A j \in 1..Len(docs) : docs[j] \in surv
            /\ \A i, j \in 1..Len(docs) : i < j => RanksBefore(sim, docs[i], docs[j])
            /\ \A x \in surv \ Range(docs) :
                  \A j \in 1..Len(docs) : RanksBefore(sim, docs[j], x))))

\* Two equally similar chunks are returned in chunk order while a third
\* surviving chunk is cut off by k.
C6_Witness ==
    /\ Retrieved
    /\ last_call.k = 2
    /\ Len(last_call.docs) = 2
    /\ Cardinality(Sharing(QueryTokens)) >= 3
    /\ With(SimsOf(last_call.query), LAMBDA sim :
          /\ ~ SimLess(sim[last_call.docs[1]], sim[last_call.docs[2]])
          /\ ~ SimLess(sim[last_call.docs[2]], sim[last_call.docs[1]]))

\* C7: whenever _INDEX_BUILT is true the three lists have one length, every
\* token of a term-frequency map is a key of _VOCAB, _DF and _IDF, and _VOCAB
\* gives its keys the distinct positions 0..|vocab|-1.
C7_IndexShape ==
    INDEX_BUILT =>
        /\ Len(TF) = Len(CHUNKS)
        /\ Len(CHUNKS) = Len(TFIDF_NORM)
        /\ \A i \in 1..Len(TF) :
              DOMAIN TF[i] \subseteq (DOMAIN VOCAB \cap DOMAIN DF \cap DOMAIN IDF)
        /\ \A t, u \in DOMAIN VOCAB : VOCAB[t] = VOCAB[u] => t = u
        /\ {VOCAB[t] : t \in DOMAIN VOCAB} = 0..(Cardinality(DOMAIN VOCAB) - 1)

\* An index of three or more chunks from both sources has been built.
C7_Witness ==
    /\ INDEX_BUILT
    /\ Len(CHUNKS) >= 3
    /\ Cardinality(DOMAIN VOCAB) >= 4
    /\ \E i, j \in 1..Len(CHUNKS) : CHUNKS[i].source # CHUNKS[j].source

\* C8: the build body runs in the first call only, and once the index is
\* built no step changes any of its structures.
C8_BuildOnceThenReuse ==
    [][/\ INDEX_BUILT =>
              /\ INDEX_BUILT'
              /\ UNCHANGED index_vars
              /\ build_runs' = build_runs
       /\ build_runs' # build_runs =>
              /\ build_runs = 0
              /\ build_runs' = 1
              /\ last_call.phase = "pending"
       /\ (last_call.phase = "pending" /\ ~ INDEX_BUILT) => build_runs' = 1]_vars

\* A triage call has been served from a non-empty index that an earlier call
\* built.
C8_Witness ==
    /\ last_call.phase = "returned"
    /\ last_call.op = "triage_and_rank"
    /\ last_call.reused
    /\ last_call.docs # <<>>
    /\ build_runs = 1

\* A CSV row none of whose eight columns holds more than blanks
RowBlank(row) ==
    \A c \in 1..Len(csv_keys) :
        \A n \in 1..Len(RowGet(row, csv_keys[c].key)) :
            RowGet(row, csv_keys[c].key)[n] \in Whitespace

\* Neither file gives a chunk: each is missing, or unreadable before its first
\* chunk, or without a word
CorpusYieldsNothing ==
    /\ \/ ~ corpus.csv.exists
       \/ \A i \in 1..Len(corpus.csv.rows) :
             \/ corpus.csv.fail_at # 0 /\ i >= corpus.csv.fail_at
             \/ RowBlank(corpus.csv.rows[i])
    /\ \/ ~ corpus.md.exists
       \/ corpus.md.fails
       \/ \A n \in 1..Len(corpus.md.text) :
             LowerAny(corpus.md.text)[n] \notin TokenChars

\* C9: when neither source yields a chunk, a served call leaves the index
\* marked built with every structure empty, the result is the empty list, no
\* exception is raised, and the build body has run once only.
C9_EmptyCorpus ==
    (CorpusYieldsNothing /\ last_call.phase = "returned") =>
        /\ INDEX_BUILT
        /\ CHUNKS = <<>> /\ TF = <<>> /\ TFIDF_NORM = <<>>
        /\ DOMAIN VOCAB = {} /\ DOMAIN DF = {} /\ DOMAIN IDF = {}
        /\ build_runs = 1
        /\ ~ last_call.raised
        /\ last_call.docs = <<>>

\* A later retrieval against the index of a CSV that has rows but gives no
\* chunk.
C9_Witness ==
    /\ CorpusYieldsNothing
    /\ Retrieved
    /\ last_call.reused
    /\ corpus.csv.exists
    /\ corpus.csv.rows # <<>>
    /\ last_call.query \notin {<<>>, None}

(***************************************************************************)
(* The claim about two threads.                                            *)
(***************************************************************************)
\* C10: with two threads the build body is entered at most once, and while a
\* thread scores, the three lists have one length and no other thread is
\* inside the build body.
C10_ConcurrentFirstAccessSafe ==
    /\ build_runs <= 1
    /\ \A t \in Threads :
          pc[t] \in ScoreLines =>
              /\ Len(TF) = Len(CHUNKS)
              /\ Len(CHUNKS) = Len(TFIDF_NORM)
              /\ \A u \in Threads \ {t} : pc[u] \notin BuildLines

(***************************************************************************)
(* Claims about the code cards and the decoder.                            *)
(***************************************************************************)
CardsDone == code_pc = "done"

\* The words of a text: its maximal runs of word characters, by position
WholeWords(s) ==
    {w \in (1..Len(s)) \X (1..Len(s)) :
        /\ w[1] <= w[2]
        /\ \A k \in w[1]..w[2] : s[k] \in WordChars
        /\ (w[1] = 1 \/ s[w[1] - 1] \notin WordChars)
        /\ (w[2] = Len(s) \/ s[w[2] + 1] \notin WordChars)}

\* One of P, B, C, U in either case, then exactly four digits
CodeShaped(w) ==
    /\ Len(w) = 5
    /\ w[1] \in CodeLetters
    /\ \A j \in 2..5 : w[j] \in DigitChars

CodesWrittenIn(text) ==
    {Upper(SubSeq(text, w[1], w[2])) :
        w \in {v \in WholeWords(text) : CodeShaped(SubSeq(text, v[1], v[2]))}}

\* C11: the codes detected in a message are exactly the upper-cased whole
\* words of the message that are one letter of P, B, C, U in either case
\* followed by exactly four digits; a word with fewer or more digits, or a
\* code inside a longer word, gives nothing, and so does an empty or
\* missing message.
C11_CodeExtraction ==
    CardsDone =>
       /\ code_turn.detected =
             (IF Falsy(code_turn.msg) THEN {} ELSE CodesWrittenIn(code_turn.msg))
       /\ \A c \in code_turn.detected : CodeShaped(c) /\ c = Upper(c)

\* A message with a lower-case code and the same code with a fifth digit
C11_Witness ==
    /\ CardsDone
    /\ code_turn.msg = <<"p", "0", "3", "0", "1", " ", "P", "0", "3", "0", "1", "1">>
    /\ code_turn.detected = { <<"P", "0", "3", "0", "1">> }

\* The detected codes that have an entry, when a target make is given
CardsForMake ==
    {c \in code_turn.detected : c \in DOMAIN obd_codes /\ ~ Falsy(code_turn.make)}

NamesBrand(text) == \E b \in Range(all_makes) : Contains(b, LowerAny(text))

NamesTarget(text) == Contains(keep_make_of(code_turn.make), LowerAny(text))

\* The sentences the claim keeps, in their order, joined as the card joins them
KeptSentences(description) ==
    JoinWith(SelectSeq(sentences_of(description),
                       LAMBDA s : ~ NamesBrand(s) \/ NamesTarget(s)), <<" ">>)

\* C12: with a target make given, the description shown on a card consists
\* of exactly those sentences of the entry's description that name no make
\* of the brand list or name the alias-normalised target make, in their
\* original order; a sentence naming another listed make and not the target
\* is dropped.
C12_BrandFiltering ==
    CardsDone =>
       \A c \in CardsForMake :
          \A description \in {obd_codes[c].description} :
             \A sentences \in {sentences_of(description)} :
                \A desc \in {code_turn.blocks[c].desc} :
                   /\ description # <<>> =>
                         \A shown \in {html_escape(KeptSentences(description))} :
                            desc = (IF shown = <<>> THEN NoDescription ELSE shown)
                   /\ \A k \in 1..Len(sentences) :
                         (/\ sentences[k] # <<>>
                          /\ NamesBrand(sentences[k])
                          /\ ~ NamesTarget(sentences[k]))
                            => ~ Contains(html_escape(sentences[k]), desc)

\* Target Ford: the Ford sentences stay, the Mazda sentence goes
C12_Witness ==
    /\ CardsDone
    /\ code_turn.make = <<"f", "o", "r", "d">>
    /\ \E c \in CardsForMake :
          /\ obd_codes[c] = EntryMisfire
          /\ code_turn.blocks[c].desc =
                <<"M", "i", "s", "f", "i", "r", "e", " ", "f", "o", "u", "n", "d", ".", " ", "F", "o", "r", "d", " ", "c", "o", "i", "l", "s", " ", "f", "a", "i", "l", ".", " ", "M", "e", "r", "c", "e", "d", "e", "s", " ", "a", "n", "d", " ", "F", "o", "r", "d", " ", "s", "h", "a", "r", "e", " ", "i", "t", "!", " ", "V", "W", " ", "t", "o", "o">>

\* An item names a listed make that is not the target, and not the target
OffBrand(item) ==
    /\ \E b \in Range(all_makes) :
          b # keep_make_of(code_turn.make) /\ Contains(b, LowerAny(item))
    /\ ~ NamesTarget(item)

\* C13: with a target make given, no item of the entry's symptoms, causes
\* or fixes that names a make of the brand list used for the description
\* sentences, other than the target, and does not name the target, is shown
\* on the card.
C13_OffBrandItemsRemoved ==
    CardsDone =>
       \A c \in CardsForMake :
          /\ \A item \in Range(obd_codes[c].symptoms) :
                OffBrand(item) => html_escape(item) \notin Range(code_turn.blocks[c].symptoms)
          /\ \A item \in Range(obd_codes[c].causes) :
                OffBrand(item) => html_escape(item) \notin Range(code_turn.blocks[c].causes)
          /\ \A item \in Range(obd_codes[c].fixes) :
                OffBrand(item) => html_escape(item) \notin Range(code_turn.blocks[c].fixes)

DecodeDone == code_pc = "decoded"

\* None, the empty text, or whitespace only
BlankCode(p) == p = None \/ \A i \in 1..Len(p) : p[i] \in Whitespace

\* The code as looked up: trimmed, upper-cased, blanks removed
LookedUp(p) == Upper(SelectSeq(Strip(OrEmpty(p)), LAMBDA ch : ch # " "))

\* The result carries the fields the database entry has
CarriesEntry(out, entry) ==
    \A f \in DOMAIN entry : out[f] = entry[f]

FamilyNote(family) ==
    <<"N", "o", " ", "e", "x", "a", "c", "t", " ", "m", "a", "t", "c", "h", ".", " ", "U", "s", "i", "n", "g", " ">> \o family \o <<" ", "f", "a", "m", "i", "l", "y", " ", "g", "u", "i", "d", "a", "n", "c", "e", ".">>

NotFoundText == <<"G", "e", "n", "e", "r", "i", "c", " ", "O", "B", "D", "-", "I", "I", " ", "f", "a", "u", "l", "t", " ", "c", "o", "d", "e", ".", " ", "N", "o", "t", " ", "f", "o", "u", "n", "d", " ", "i", "n", " ", "l", "o", "c", "a", "l", " ", "d", "a", "t", "a", "b", "a", "s", "e", ".">>

\* What the claim says of a decode_code result, given the key it takes for
\* the family of the code (<<>> when the code has no family key)
DecodesAs(out, code, db, family) ==
    IF code \in DOMAIN db
    THEN out.code = code /\ CarriesEntry(out, db[code])
    ELSE IF family # <<>> /\ family \in DOMAIN db
    THEN /\ out.code = code
         /\ CarriesEntry(out, db[family])
         /\ out.notes = <<FamilyNote(family)>>
    ELSE out.code = code /\ out.desc = NotFoundText

\* In the chat flow every detected code has a block, and a code without a
\* local entry has the block that says so
UnknownCodesGetPlaceholder ==
    CardsDone =>
       /\ DOMAIN code_turn.blocks = code_turn.detected
       /\ \A c \in code_turn.detected :
             c \notin DOMAIN obd_codes =>
                /\ code_turn.blocks[c].code = c
                /\ code_turn.blocks[c].desc = <<"N", "o", " ", "l", "o", "c", "a", "l", " ", "d", "e", "t", "a", "i", "l", "s", " ", "f", "o", "u", "n", "d", ".">>

\* The first three characters of the code, or all of a shorter one, and "xx"
FirstThreeAndXX(code) == SubSeq(code, 1, Min2(3, Len(code))) \o <<"x", "x">>

\* C14 as stated: decode_code returns {} only for blank input; any other
\* code gets its exact entry, otherwise the entry of its first three
\* characters + "xx" with the family note, otherwise the not-found
\* placeholder; and a detected code without a local entry gets the
\* "No local details found" block.
C14_UnknownCodesNeverFail_AsStated ==
    /\ DecodeDone =>
          /\ (decode_last.out = <<>>) <=> BlankCode(decode_last.pcode)
          /\ ~ BlankCode(decode_last.pcode) =>
                DecodesAs(decode_last.out, LookedUp(decode_last.pcode),
                          OBD_CODES_CACHE.db,
                          FirstThreeAndXX(LookedUp(decode_last.pcode)))
    /\ UnknownCodesGetPlaceholder

\* The family key of a code of at least three characters; a shorter code
\* has none
FamilyKey(code) == IF Len(code) >= 3 THEN SubSeq(code, 1, 3) \o <<"x", "x">> ELSE <<>>

\* C14, amended: as stated, with the family entry looked up only for codes
\* of at least three characters; a shorter code that is not in the database
\* gets the not-found placeholder.
C14_UnknownCodesNeverFail ==
    /\ DecodeDone =>
          /\ (decode_last.out = <<>>) <=> BlankCode(decode_last.pcode)
          /\ ~ BlankCode(decode_last.pcode) =>
                DecodesAs(decode_last.out, LookedUp(decode_last.pcode),
                          OBD_CODES_CACHE.db,
                          FamilyKey(LookedUp(decode_last.pcode)))
    /\ UnknownCodesGetPlaceholder

\* P0302 is not in the database and is decoded with the P03xx family entry
C14_Witness ==
    /\ DecodeDone
    /\ decode_last.pcode = <<"P", "0", "3", "0", "2">>
    /\ decode_last.out.desc = <<"I", "g", "n", "i", "t", "i", "o", "n", " ", "f", "a", "m", "i", "l", "y", ".">>
    /\ decode_last.out.notes = <<FamilyNote(<<"P", "0", "3", "x", "x">>)>>

(***************************************************************************)
(* Claim about the alias table of _normalise_text.                         *)
(***************************************************************************)
\* C15: for every pair of the alias table and every following text, the
\* text written with the alias and the text written with the canonical
\* name normalise to the same string.
C15_AliasRoundTrip ==
    norm_call.phase = "done" => norm_call.with_alias = norm_call.with_canonical

(***************************************************************************)
(* Further claims about csv_match.                                         *)
(***************************************************************************)
\* C16: when csv_match returns a match, the confidence shown is
\* 40 + floor(final score / 5) limited to the range 55..95, an integer of
\* that range; whether a match is returned depends on the scores alone.
C16_DisplayConfidence ==
    MatchDone =>
       /\ match_out.card # 0 =>
             LET raw == 40 + match_out.score \div 5
             IN  /\ match_out.confidence =
                       (IF raw < 55 THEN 55 ELSE IF raw > 95 THEN 95 ELSE raw)
                 /\ match_out.confidence \in 55..95
       /\ match_out.card # 0 <=> (ScoredFinals # {} /\ BestScored >= 200)

\* A match whose confidence is below the upper limit, in a table that also
\* makes csv_match return a match at the limit for another message
C16_Witness ==
    /\ MatchDone
    /\ match_out.card # 0
    /\ match_out.confidence < 95
    /\ \E q \in Queries :
          40 + csv_match(q, csv_rows, have_rapidfuzz).score \div 5 > 95

\* The table positions of the rows scored with the best final score
BestRows ==
    {match_out.scored[k].row :
        k \in {j \in 1..Len(match_out.scored) : match_out.scored[j].final = BestScored}}

\* The orders of a table of n rows that leave the rows at the positions
\* best in their relative order: p[k] is the present position of the row
\* placed k-th
Reorderings(n, best) ==
    {p \in [1..n -> 1..n] :
        /\ \A i, j \in 1..n : i # j => p[i] # p[j]
        /\ \A i, j \in 1..n : (i < j /\ p[i] \in best /\ p[j] \in best) => p[i] < p[j]}

\* C17: when several rows share the maximum final score, csv_match returns
\* the one that comes first in the table, and moving the rows of lower
\* score about does not change the row returned.
C17_TiesByInputOrder ==
    (MatchDone /\ match_out.card # 0) =>
       \A best \in {BestRows} :
          /\ match_out.card \in best
          /\ \A i \in best : match_out.card <= i
          /\ \A p \in (IF Cardinality(best) >= 2
                       THEN Reorderings(Len(csv_rows), best) ELSE {}) :
                \A out \in {csv_match(match_text,
                                      [k \in 1..Len(csv_rows) |-> csv_rows[p[k]]],
                                      have_rapidfuzz)} :
                   out.card # 0 /\ p[out.card] = match_out.card

\* Two rows share the best score, a third row scored lower, and the first
\* of the two is returned although it is not the first row of the table
C17_Witness ==
    /\ MatchDone
    /\ match_out.card > 1
    /\ Cardinality(BestRows) = 2
    /\ Len(match_out.scored) = 3


(***************************************************************************)
(* C20                                                                     *)
(***************************************************************************)
\* The scored rows of the finished call, each with the row of the table it
\* was computed from
ScoredRows ==
    {[row |-> csv_rows[match_out.scored[k].row], final |-> match_out.scored[k].final] :
        k \in 1..Len(match_out.scored)}

QueryText == normalise_text(match_text)

SymptomTokens == {w \in Range(Split(QueryText)) \ stop : Len(w) > 3}

FaultTokens(r) == Range(Split(normalise_text(r.Fault))) \ stop

YearInQuery(r) ==
    \E y \in Range(SplitOn(Lower(r.Year), "-")) : y # <<>> /\ Contains(y, QueryText)

FuzzyPart(r) ==
    fuzzy_ratio(Join(Sorted(SymptomTokens)), Join(Sorted(FaultTokens(r))), have_rapidfuzz)

\* The score of row r with m standing for "the model counts"
FormulaWith(r, m) ==
    10 * (15 * Cardinality(SymptomTokens \cap FaultTokens(r)) + 6
          + (IF m THEN 4 ELSE 0) + (IF YearInQuery(r) THEN 3 ELSE 0))
    + FuzzyPart(r)

ModelInQuery(r) ==
    normalise_text(r.Model) # <<>> /\ Contains(normalise_text(r.Model), QueryText)

ModelNearQuery(r) ==
    /\ normalise_text(r.Model) # <<>>
    /\ fuzzy_ratio(normalise_text(r.Model), QueryText, have_rapidfuzz) >= 80

ReturnedScoreIsFinal ==
    match_out.card # 0 =>
       \E k \in 1..Len(match_out.scored) :
          /\ match_out.scored[k].row = match_out.card
          /\ match_out.scored[k].final = match_out.score

\* C20 as stated: the final score of every scored row is 10 * (15 * |overlap|
\* + 6 + 4 if the row's model is in the query + 3 if a part of its Year is
\* in the normalised query) + the fuzzy ratio of the sorted joined symptom
\* tokens and fault tokens, and the score returned is the returned row's.
C20_ScoreFormula_AsStated ==
    MatchDone =>
       /\ \A s \in ScoredRows : s.final = FormulaWith(s.row, ModelInQuery(s.row))
       /\ ReturnedScoreIsFinal

\* C20: the same formula with the 4 added when the row's normalised model
\* is in the normalised query or has a fuzzy ratio of at least 80 with it.
C20_ScoreFormula ==
    MatchDone =>
       /\ \A s \in ScoredRows :
             s.final = FormulaWith(s.row, ModelInQuery(s.row) \/ ModelNearQuery(s.row))
       /\ ReturnedScoreIsFinal

\* A card is returned for a row whose model is near the query without
\* being in it
C20_Witness ==
    /\ MatchDone
    /\ match_out.card # 0
    /\ ModelNearQuery(csv_rows[match_out.card])
    /\ ~ ModelInQuery(csv_rows[match_out.card])
    /\ match_out.score = FormulaWith(csv_rows[match_out.card], TRUE)


(***************************************************************************)
(* C19                                                                     *)
(***************************************************************************)
CsvFailed == corpus.csv.exists /\ corpus.csv.fail_at # 0

MdFailed == corpus.md.exists /\ corpus.md.fails

\* The chunks of the index that come from the file of that name
ChunksFrom(source) == SelectSeq(CHUNKS, LAMBDA c : c.source = source)

\* What a file gives when every row or section of it is read
AllOfCsv == load_csv_chunks([corpus.csv EXCEPT !.fail_at = 0])

AllOfMd == load_md_chunks([corpus.md EXCEPT !.fails = FALSE])

\* C19: when reading or parsing one source fails at any point, a served
\* call leaves no chunk of that source in the index, leaves the chunks of
\* the other source indexed, marks the index built and raises nothing.
C19_LoadFailureIsolated ==
    last_call.phase = "returned" =>
       /\ CsvFailed =>
             /\ ChunksFrom("obdly_fault_data.csv") = <<>>
             /\ ~ MdFailed => ChunksFrom("procedures.md") = AllOfMd
             /\ INDEX_BUILT /\ ~ last_call.raised
       /\ MdFailed =>
             /\ ChunksFrom("procedures.md") = <<>>
             /\ ~ CsvFailed => ChunksFrom("obdly_fault_data.csv") = AllOfCsv
             /\ INDEX_BUILT /\ ~ last_call.raised


(***************************************************************************)
(* C18                                                                     *)
(***************************************************************************)
\* The chunks whose text is the query of the served call
SelfQueried ==
    {i \in 1..Len(CHUNKS) : Retrieved /\ CHUNKS[i].text = OrEmpty(last_call.query)}

\* Chunk i is at least as similar to the query as every chunk
MostSimilar(sim, i) == \A d \in 1..Len(CHUNKS) : ~ SimLess(sim[i], sim[d])

\* The chunks returned before chunk i, all of them when i is not returned
RankedBefore(i) ==
    {last_call.docs[j] : j \in {n \in 1..Len(last_call.docs) :
                                  \A m \in 1..n : last_call.docs[m] # i}}

\* C18 as stated: for every indexed chunk c, retrieve_context(c.text, k) is
\* not empty, c's cosine similarity to that query is the maximum over all
\* chunks, and c is ranked first.
C18_SelfSimilarity_AsStated ==
    Retrieved =>
    \A sim \in {SimsOf(last_call.query)} :
       \A i \in SelfQueried :
          /\ last_call.docs # <<>>
          /\ MostSimilar(sim, i)
          /\ last_call.docs[1] = i

\* C18: for every indexed chunk c, retrieve_context(c.text, k) is not
\* empty, c's cosine similarity to that query is the maximum over all
\* chunks, and only chunks as similar as c that come before c in the index
\* are ranked before c.
C18_SelfSimilarity ==
    Retrieved =>
    \A sim \in {SimsOf(last_call.query)} :
       \A i \in SelfQueried :
          /\ last_call.docs # <<>>
          /\ MostSimilar(sim, i)
          /\ \A d \in RankedBefore(i) : d < i /\ ~ SimLess(sim[d], sim[i])

\* A chunk asked for by its own text comes second, behind an earlier chunk
\* as similar as itself and ahead of a chunk that shares a word with it
C18_Witness ==
    \E i \in SelfQueried :
       /\ Len(last_call.docs) = 2
       /\ last_call.docs[2] = i
       /\ last_call.docs[1] < i
       /\ Cardinality(Sharing(QueryTokens)) >= 3


(***************************************************************************)
(* C21                                                                     *)
(***************************************************************************)
\* The chunks whose term-frequency map has token w
ChunksWith(w) == {i \in 1..Len(TF) : w \in DOMAIN TF[i]}

\* C21: after a build, _DF[w] is the number of chunks whose term-frequency
\* map contains w, for every token w; it lies between 1 and len(_CHUNKS),
\* and every IDF weight is at least 1.
C21_DocumentFrequency ==
    INDEX_BUILT =>
       /\ DOMAIN DF = UNION {DOMAIN TF[i] : i \in 1..Len(TF)}
       /\ DOMAIN DF = DOMAIN VOCAB
       /\ \A w \in DOMAIN DF :
             /\ DF[w] = Cardinality(ChunksWith(w))
             /\ 1 <= DF[w] /\ DF[w] <= Len(CHUNKS)
             /\ IDF[w] >= 1000

\* A token is in two chunks of three or more and occurs more than once in
\* one of them
C21_Witness ==
    /\ INDEX_BUILT
    /\ Len(CHUNKS) >= 3
    /\ \E w \in DOMAIN DF :
          /\ DF[w] = 2
          /\ \E i \in ChunksWith(w) : TF[i][w] >= 2


(***************************************************************************)
(* C29                                                                     *)
(***************************************************************************)
\* The query passes the pre-filters and some row passes the make gate and
\* the symptom-overlap gate
SomeCandidate ==
    \E q \in {normalise_text(match_text)} :
       /\ HasFaultWord(q) /\ ~ HasInfoWord(q)
       /\ \E sym \in {SymptomTokenSet(q)} :
             \E i \in 1..Len(csv_rows) :
                /\ FaultTokenSet(csv_rows[i]) \cap sym # {}
                /\ MakeTestOf(csv_rows[i], q)

\* C29: every row that passes the make gate and the symptom-overlap gate
\* has a final score of at least 210, so with the pre-filters passed and a
\* candidate row csv_match returns a match, with a score of at least 210
\* and a displayed confidence of at least 82.
C29_FloorNeverRejects ==
    MatchDone =>
       /\ \A k \in 1..Len(match_out.scored) : match_out.scored[k].final >= 210
       /\ (match_out.scored # <<>> \/ SomeCandidate) =>
             /\ match_out.card # 0
             /\ match_out.score >= 210
             /\ match_out.confidence >= 82

\* A match of one shared word and no bonus beyond the make
C29_Witness ==
    /\ MatchDone
    /\ match_out.card # 0
    /\ SomeCandidate
    /\ match_out.score < 300
    /\ match_out.confidence < 95


(***************************************************************************)
(* C23                                                                     *)
(***************************************************************************)
\* The tokens of text s by the tokenizer rule: the maximal runs of ASCII
\* letters and digits of the normalised text
RuleTokens(s) == Range(tokenize(normalise_text(s)))

\* The symptom and fault token sets by the tokenizer rule
RuleSymptomTokens == {w \in RuleTokens(match_text) \ stop : Len(w) > 3}

RuleFaultTokens(r) == RuleTokens(r.Fault) \ stop

\* The rows csv_match scored
ScoredPositions == {match_out.scored[k].row : k \in 1..Len(match_out.scored)}

\* C23: the symptom tokens and the fault tokens of csv_match are maximal
\* runs of ASCII letters and digits, so a row that passes the make gate is
\* scored exactly when a word of the query, with or without punctuation
\* next to it, is a word of the row's Fault.
C23_MatcherTokens ==
    MatchDone =>
       \A q \in {normalise_text(match_text)} :
          (HasFaultWord(q) /\ ~ HasInfoWord(q)) =>
             \A sym \in {RuleSymptomTokens} :
                \A i \in 1..Len(csv_rows) :
                   MakeTestOf(csv_rows[i], q) =>
                      (i \in ScoredPositions <=> RuleFaultTokens(csv_rows[i]) \cap sym # {})


(***************************************************************************)
(* C30                                                                     *)
(***************************************************************************)
PlanStarted == plan.phase \in {"asked", "answered"}

\* C30: from next_action(None, ...) on, with every answer given to a
\* question asked, the questions returned are steps[0], steps[1], ... in
\* order, one per answer and the same one when asked again without an
\* answer, the completion message from len(steps) answers on; there are at
\* most 4 steps, they never change, len(answers) = len(steps), and every
\* answer is stored at the index of the question it answers.
C30_StepperOrder ==
    PlanStarted =>
       \A steps \in {plan.state["steps"]} :
       \A answers \in {plan.state["answers"]} :
          /\ steps = plan.first_steps
          /\ Len(steps) >= 1 /\ Len(steps) <= 4
          /\ Len(answers) = Len(steps)
          /\ \A k \in 1..Len(plan.asked) :
                plan.asked[k].q = IF plan.asked[k].after < Len(steps)
                                  THEN steps[plan.asked[k].after + 1]
                                  ELSE Completed
          /\ \A n \in 1..Len(steps) :
                answers[n] = IF n <= Len(plan.given) THEN plan.given[n] ELSE "None"

\* Four seed tests of five are answered, the third with no, the completion
\* message has come twice, and an answer after it changed nothing
C30_Witness ==
    /\ plan.phase = "asked"
    /\ plan.question = Completed
    /\ Len(plan.first_steps) = 4
    /\ plan.first_steps[4] = [flow |-> "seed", n |-> 4]
    /\ Len(plan.given) = 5
    /\ plan.given[3] = "False"
    /\ Cardinality({k \in 1..Len(plan.asked) : plan.asked[k].q = Completed}) >= 2


(***************************************************************************)
(* C22                                                                     *)
(***************************************************************************)
\* The tokens a chunk holds: its pieces between single spaces
PiecesOf(chunk) == SplitOn(chunk, " ")

\* A non-empty run of ASCII letters and digits
IsToken(w) == w # <<>> /\ \A n \in 1..Len(w) : w[n] \in TokenChars

C26_DailyLimit ==
    /\ ai_session.api_calls_today <= 100
    /\ ai_session.served <= 100


\* A plate-shaped token of 4 to 8 characters, spaces inside it not counted
HasPlateToken(text) ==
    \E k \in 1..Len(reg_patterns) :
        LET m == re_search(reg_patterns[k], Upper(text))
        IN  m # None /\ Len(without_spaces(m)) \in 4..8

\* C28: detect_registration_request answers (True, reg) only for a text with
\* a registration keyword and a plate-shaped token of 4 to 8 characters;
\* without a keyword it answers (False, None) and the turn goes to the
\* diagnosis, not to the vehicle lookup
C28_RegistrationNeedsKeyword ==
    reg_turn.phase = "answered" =>
        /\ reg_turn.is_reg_query =>
               has_keyword(reg_turn.text) /\ HasPlateToken(reg_turn.text)
        /\ ~has_keyword(reg_turn.text) =>
               /\ ~reg_turn.is_reg_query
               /\ reg_turn.detected_reg = None
               /\ reg_turn.handled_by = "diagnosis"


\* C24: approving or rejecting the displayed pending submission gives that
\* same submission the status 'approved' or 'rejected' in the file and
\* leaves the status of every other submission as it was
C24_ReviewActsOnShown ==
    review.phase = "open" /\ review.last.op \in {"approved", "rejected"} =>
        /\ Len(review.submissions) = Len(review.last.before)
        /\ \A i \in 1..Len(review.submissions) :
              review.submissions[i].status =
                  IF review.submissions[i].timestamp = review.last.shown
                  THEN review.last.op
                  ELSE review.last.before[i].status

\* C25: every submission is appended to obdly_fault_data.csv at most once,
\* and a submission that was appended is no longer pending
C25_AppendedAtMostOnce ==
    review.phase = "open" =>
        \A i \in 1..Len(review.submissions) :
            LET rows == {j \in 1..Len(review.fault_data) :
                            review.fault_data[j].of = review.submissions[i].timestamp}
            IN  /\ Cardinality(rows) <= 1
                /\ rows # {} => review.submissions[i].status # "pending"


\* The key of a database row by make, model, year and fault
RowCombo(row) == <<Lower(row["Make"]), Lower(row["Model"]), row["Year"], Lower(row["Fault"])>>

\* The rows the last call wrote
WrittenRows ==
    {i \in 1..Len(db_append.db.rows) : i > Len(db_append.last.before.rows)}

\* C27: a call returns appended + skipped = len(candidates), writes no two
\* rows with the same permalink or the same (make, model, year, fault) key,
\* and the same call made again on the resulting file appends nothing
C27_AppendIdempotent ==
    db_append.phase \in {"ready", "repeated"} /\ db_append.calls >= 1 =>
        /\ db_append.last.appended + db_append.last.skipped
              = Len(db_append.last.candidates)
        /\ \A i, j \in WrittenRows :
              i # j =>
                  /\ RowCombo(db_append.db.rows[i]) # RowCombo(db_append.db.rows[j])
                  /\ DictGet(db_append.db.rows[i], "Permalink", <<>>) # <<>> =>
                         DictGet(db_append.db.rows[i], "Permalink", <<>>)
                             # DictGet(db_append.db.rows[j], "Permalink", <<>>)
        /\ db_append.phase = "repeated" => db_append.last.appended = 0

====
